---- MODULE Spec2Model ----
(***************************************************************************)
(* Knowledge-retrieval subsystem of awsna-ai-hub: the Qdrant library       *)
(* (cluster manager, ensureCollection, ingest, searchKnowledge,            *)
(* listDocuments, deleteDocumentByFileName and its client-side fallback)   *)
(* and the API routes that call it.                                        *)
(*                                                                         *)
(* Strings that the code takes apart (collection names, school ids) are    *)
(* sequences of one-character strings; strings it only compares (file      *)
(* names, cluster names, chunk texts) are TLA+ strings.                    *)
(***************************************************************************)
EXTENDS Integers, Sequences, FiniteSets, TLC

----------------------------------------------------------------------------
(* Bounds of the model *)

\* initial points carry ids 0..MaxId
MaxId == 2
\* Date.now() runs over 0..MaxTime
MaxTime == 1
\* a document splits into at most MaxChunks chunks
MaxChunks == 2
\* page size of the fallback's scroll (the code asks for 1000 points a page)
ScrollLimit == 2
\* id batch of the fallback's deletes (the code deletes 100 ids a request)
DeleteBatchSize == 1
\* chunks per embedding/upsert batch (the upload route passes batchSize 20)
UploadBatchSize == 1
\* chunks of a document and batch sizes of uploadDocumentToQdrantOptimized
MaxDocChunks == 4
MaxBatchSize == 3
\* chunks of a document in the runs that follow the progress reports
MaxProgressChunks == 201

----------------------------------------------------------------------------
(* Values *)

\* `undefined` / null / '' for a schoolId: all three are falsy in the code
NoSchool == <<>>
SchoolA == <<"a">>
SchoolB == <<"b">>
SchoolIds == {SchoolA, SchoolB}
\* the school every user may read
Awsna == <<"a", "w", "s", "n", "a">>
\* no verified token
NoUser == ""
Users == {"u", "v"}
Files == {"f", "g"}
\* the result of an offset that is undefined or null
NullOffset == -1
Unregistered == "unregistered"
\* no document under admins/{uid}
NoAdminDoc == [exists |-> FALSE, email |-> "", isAdmin |-> FALSE]
NoAdmins == [u \in Users |-> NoAdminDoc]
DefaultCluster == "default"

\* CLUSTER_CONFIGS: the cluster names each deployment mode registers
ClusterConfigs(mode) ==
    IF mode = "MULTI_CLUSTER" THEN {"default", "enterprise", "eu"} ELSE {"default"}
AllClusters == {"default", "enterprise", "eu"}

\* `${schoolId}_${collection}`
Underscore(a, b) == a \o <<"_">> \o b
CollA == Underscore(SchoolA, <<"c">>)
CollB == Underscore(SchoolB, <<"c">>)

VARIABLES
    cfg,     \* deployment: [mode, mapping] (QDRANT_DEPLOYMENT_MODE, SCHOOL_CLUSTER_MAPPING)
    store,   \* store[cluster][collectionName] = [vectors, indexes, points]
    now,     \* Date.now()
    del,     \* the deleteDocumentByFileName call in progress
    ing,     \* ing[p]: the uploadDocumentToQdrantOptimized call of process p
    srch,    \* the searchKnowledge call in progress
    call,    \* the last single-request library call and what it returned
    req,     \* the API request in progress
    members, \* the user documents of the schools: <<userId, schoolId>> pairs
    admins   \* the admins collection: admins[uid] = [exists, email, isAdmin]

vars == <<cfg, store, now, del, ing, srch, call, req, members, admins>>

----------------------------------------------------------------------------
(* Tenant router *)

\* getClusterForSchool: mapping?.clusterName || 'default'
getClusterForSchool(schoolId) ==
    IF schoolId \in DOMAIN cfg.mapping THEN cfg.mapping[schoolId] ELSE DefaultCluster

\* QdrantClusterManager.getCluster: the name of the client handle, or Unregistered
\* where the code throws 'No Qdrant cluster available'
getCluster(schoolId) ==
    LET clusterName == IF schoolId # NoSchool THEN getClusterForSchool(schoolId)
                       ELSE DefaultCluster
    IN  IF clusterName \in ClusterConfigs(cfg.mode) THEN clusterName ELSE Unregistered

----------------------------------------------------------------------------
(* The vector store *)

Restrict(f, S) == [x \in S |-> f[x]]

Min(a, b) == IF a < b THEN a ELSE b

\* the elements of a finite set of integers in ascending order
RECURSIVE SortedIds(_)
SortedIds(S) ==
    IF S = {} THEN <<>>
    ELSE LET m == CHOOSE x \in S : \A y \in S : x <= y
         IN  <<m>> \o SortedIds(S \ {m})

Exists(cl, name) == cl # Unregistered /\ name \in DOMAIN store[cl]

\* a store-side filter {must: [fileName = f, (schoolId = t)]}
FilterMatches(point, fileName, schoolId) ==
    /\ point.metadata.fileName = fileName
    /\ (schoolId # NoSchool => point.metadata.schoolId = schoolId)

\* client.delete(collection, {filter})
DeleteByFilter(points, fileName, schoolId) ==
    Restrict(points, {id \in DOMAIN points : ~FilterMatches(points[id], fileName, schoolId)})

\* client.delete(collection, {points: ids})
DeleteByIds(points, ids) == Restrict(points, DOMAIN points \ ids)

\* client.upsert(collection, {points}): a point with a known id is overwritten
Upsert(points, new) ==
    [id \in DOMAIN points \cup DOMAIN new |->
        IF id \in DOMAIN new THEN new[id] ELSE points[id]]

\* client.scroll(collection, {limit, offset}): points in id order from `offset`,
\* and the id the next page starts at
Scroll(points, offset, limit) ==
    LET ids  == SortedIds({id \in DOMAIN points : offset = NullOffset \/ id >= offset})
        n    == Min(limit, Len(ids))
    IN  [points |-> [k \in 1..n |-> [id |-> ids[k], payload |-> points[ids[k]]]],
         next_page_offset |-> IF Len(ids) > limit THEN ids[limit + 1] ELSE NullOffset]

SetPoints(cl, name, pts) ==
    [store EXCEPT ![cl] = [@ EXCEPT ![name] = [@ EXCEPT !.points = pts]]]

----------------------------------------------------------------------------
(* ensureCollection and uploadDocumentToQdrantOptimized, one call per process *)

\* the arguments of a call besides its schoolId
CallArgs(collectionName, limit, offset) ==
    [collectionName |-> collectionName, limit |-> limit, offset |-> offset]

CallNone == [op |-> "none", args |-> CallArgs(<<>>, 0, 0), schoolId |-> NoSchool,
             client |-> Unregistered, outcome |-> "none", value |-> 0]
ReqIdle ==
    [pc |-> "idle", route |-> "", userId |-> NoUser, schoolId |-> NoSchool,
     log |-> <<>>, status |-> 0]

Procs == {1, 2}
Texts == {"x", "y"}

VectorParams == [size |-> 512, distance |-> "Cosine"]
\* the three createPayloadIndex requests, in the order the code issues them
PayloadIndexes ==
    << [field_name |-> "text",                field_schema |-> "text"],
       [field_name |-> "metadata.collection", field_schema |-> "keyword"],
       [field_name |-> "metadata.schoolId",   field_schema |-> "keyword"] >>

IngIdle ==
    [pc |-> "idle", collectionName |-> <<>>,
     metadata |-> [fileName |-> "", schoolId |-> NoSchool, uploadedAt |-> 0],
     chunks |-> <<>>, totalChunks |-> 0, batchStart |-> 0, processedChunks |-> 0,
     k |-> 0, pending |-> <<>>, progress |-> <<>>, created |-> 0, indexed |-> 0,
     ensured |-> FALSE, after |-> FALSE, result |-> "none",
     batchSize |-> 0, sent |-> <<>>, embeds |-> 0, upserts |-> 0, pred |-> {},
     ensureClient |-> Unregistered, upsertClient |-> Unregistered]

IngThrow(r) == [r EXCEPT !.pc = "done", !.result = "throw"]
IngSet(p, r) == ing' = [ing EXCEPT ![p] = r]

\* batchSize = 20, the default of uploadDocumentToQdrantOptimized and the value
\* uploadDocumentToQdrant passes
DefaultBatchSize == 20

\* Math.round((processedChunks / totalChunks) * 100)
Percent(processed, total) == (200 * processed + total) \div (2 * total)

\* lines 461-470: after ensureCollection returned, the chunks are counted and the
\* batch loop is entered; with no chunk the call returns true at once
AfterEnsure(r) ==
    IF r.totalChunks = 0 THEN [r EXCEPT !.pc = "done", !.result = "true", !.ensured = TRUE]
    ELSE [r EXCEPT !.pc = "embed", !.ensured = TRUE]

\* created and indexed count the createCollection and createPayloadIndex requests
\* the call has issued; ensured tells that its ensureCollection returned true;
\* after tells that, when the call started, an ensureCollection of the same name
\* on the same cluster had returned true and the collection was not deleted since
EnsuredBefore(collectionName, schoolId) ==
    \E q \in Procs : /\ ing[q].ensured
                     /\ ing[q].collectionName = collectionName
                     /\ getCluster(ing[q].metadata.schoolId) = getCluster(schoolId)

\* collections.collections.some(c => c.name === collectionName)
CollectionExistsNever(cl, collectionName) == FALSE

CollectionExists(cl, collectionName) == Exists(cl, collectionName)

\* ensureClient and upsertClient are the client handles the call's
\* ensureCollection and its upserts have used;
\* sent lists the points of the upserts that succeeded, embeds and upserts count
\* the generateEmbeddingsBatch and client.upsert requests issued, pred holds the
\* calls that had returned true when this one started
\* uploadDocumentToQdrantOptimized starts: ensureCollection resolves the client
\* of metadata.schoolId (getQdrantClient throws when it is not registered)
IngestCallOptimized(collectionName, metadata, chunks, batchSize) ==
    LET r == [IngIdle EXCEPT !.collectionName = collectionName,
                             !.metadata = metadata,
                             !.chunks = chunks,
                             !.totalChunks = Len(chunks),
                             !.batchSize = batchSize,
                             !.pred = {q \in Procs : ing[q].pc = "done"
                                                     /\ ing[q].result = "true"},
                             !.after = EnsuredBefore(collectionName, metadata.schoolId),
                             !.ensureClient = getCluster(metadata.schoolId)]
    IN  IF getCluster(metadata.schoolId) = Unregistered
        THEN IngThrow(r)
        ELSE [r EXCEPT !.pc = "getCollections"]

\* uploadDocumentToQdrant: the same with its fixed batch size
IngestCall(collectionName, metadata, chunks) ==
    IngestCallOptimized(collectionName, metadata, chunks, UploadBatchSize)

\* a call of uploadDocumentToQdrantOptimized with a batch size by process p
IngestStartOptimized(p, collectionName, metadata, chunks, batchSize) ==
    /\ ing[p].pc = "idle"
    /\ IngSet(p, IngestCallOptimized(collectionName, metadata, chunks, batchSize))
    /\ UNCHANGED <<admins, members, srch, call, req, cfg, store, now, del>>

\* a call of uploadDocumentToQdrant by process p
IngestStart(p, collectionName, metadata, chunks) ==
    /\ ing[p].pc = "idle"
    /\ IngSet(p, IngestCall(collectionName, metadata, chunks))
    /\ UNCHANGED <<admins, members, srch, call, req, cfg, store, now, del>>

\* client.getCollections() and the test collections.some(c => c.name === name)
EnsureGetCollections(p) ==
    /\ ing[p].pc = "getCollections"
    /\ LET r == ing[p]
           cl == getCluster(r.metadata.schoolId)
       IN  IF CollectionExists(cl, r.collectionName)
           THEN IngSet(p, AfterEnsure(r))
           ELSE IngSet(p, [r EXCEPT !.pc = "createCollection"])
    /\ UNCHANGED <<admins, members, srch, call, req, cfg, store, now, del>>

\* client.createCollection(name, {vectors: {size: 512, distance: 'Cosine'}});
\* the store refuses a name that exists by now
EnsureCreateCollection(p) ==
    /\ ing[p].pc = "createCollection"
    /\ LET r == ing[p]
           cl == getCluster(r.metadata.schoolId)
       IN  IF Exists(cl, r.collectionName)
           THEN /\ IngSet(p, IngThrow([r EXCEPT !.created = @ + 1]))
                /\ UNCHANGED store
           ELSE /\ store' = [store EXCEPT ![cl] =
                       [n \in DOMAIN @ \cup {r.collectionName} |->
                           IF n = r.collectionName
                           THEN [vectors |-> VectorParams, indexes |-> {}, points |-> <<>>]
                           ELSE @[n]]]
                /\ IngSet(p, [r EXCEPT !.pc = "createPayloadIndex", !.k = 1,
                                       !.created = @ + 1])
    /\ UNCHANGED <<admins, members, srch, call, req, cfg, now, del>>

\* the k-th client.createPayloadIndex(name, ...); after the third, ensureCollection
\* returns true
EnsureCreatePayloadIndex(p) ==
    /\ ing[p].pc = "createPayloadIndex"
    /\ LET r == ing[p]
           cl == getCluster(r.metadata.schoolId)
       IN  IF ~Exists(cl, r.collectionName)
           THEN /\ IngSet(p, IngThrow([r EXCEPT !.indexed = @ + 1]))
                /\ UNCHANGED store
           ELSE /\ store' = [store EXCEPT ![cl] = [@ EXCEPT ![r.collectionName] =
                       [@ EXCEPT !.indexes = @ \cup {PayloadIndexes[r.k]}]]]
                /\ IngSet(p, IF r.k < Len(PayloadIndexes)
                             THEN [r EXCEPT !.k = @ + 1, !.indexed = @ + 1]
                             ELSE AfterEnsure([r EXCEPT !.indexed = @ + 1]))
    /\ UNCHANGED <<admins, members, srch, call, req, cfg, now, del>>

\* a client.createPayloadIndex request throws: ensureCollection logs and throws
\* again, the collection staying as far as it was built
EnsureCreatePayloadIndexFail(p) ==
    /\ ing[p].pc = "createPayloadIndex"
    /\ IngSet(p, IngThrow([ing[p] EXCEPT !.indexed = @ + 1]))
    /\ UNCHANGED <<admins, members, srch, call, req, cfg, store, now, del>>

\* the points of one batch with chunkIndex counted from the batch's start
BatchPointsLocalIndex(r, t) ==
    LET batchEnd == Min(r.batchStart + r.batchSize, r.totalChunks)
    IN  [id \in {t + j : j \in r.batchStart .. batchEnd - 1} |->
            [text |-> r.chunks[id - t + 1],
             metadata |-> r.metadata,
             chunkIndex |-> id - t - r.batchStart,
             totalChunks |-> r.totalChunks]]

\* the points of one batch: id Date.now() + batchStart + index
BatchPoints(r, t) ==
    LET batchEnd == Min(r.batchStart + r.batchSize, r.totalChunks)
    IN  [id \in {t + j : j \in r.batchStart .. batchEnd - 1} |->
            [text |-> r.chunks[id - t + 1],
             metadata |-> r.metadata,
             chunkIndex |-> id - t,
             totalChunks |-> r.totalChunks]]

\* generateEmbeddingsBatch returned: the batch's points are assembled and the
\* upsert request is sent
IngestEmbed(p) ==
    /\ ing[p].pc = "embed"
    /\ IngSet(p, [ing[p] EXCEPT !.pc = "upsert", !.pending = BatchPoints(ing[p], now),
                                !.embeds = @ + 1])
    /\ UNCHANGED <<admins, members, srch, call, req, cfg, store, now, del>>

\* generateEmbeddingsBatch throws and the batch is tried again
IngestEmbedFailRetry(p) ==
    /\ ing[p].pc = "embed"
    /\ IngSet(p, [ing[p] EXCEPT !.embeds = @ + 1])
    /\ UNCHANGED <<admins, members, srch, call, req, cfg, store, now, del>>

\* generateEmbeddingsBatch throws: the call fails
IngestEmbedFail(p) ==
    /\ ing[p].pc = "embed"
    /\ IngSet(p, IngThrow([ing[p] EXCEPT !.embeds = @ + 1]))
    /\ UNCHANGED <<admins, members, srch, call, req, cfg, store, now, del>>

\* the deleteDocumentByFileName call under way learns nothing of an upsert; the
\* ids and file names upserted since it started are remembered for the claims
NoteUpsert(d, new) ==
    IF d.pc = "idle" THEN d
    ELSE [d EXCEPT !.touched = @ \cup DOMAIN new,
                   !.ingested = @ \cup {new[id].metadata.fileName : id \in DOMAIN new}]

\* client.upsert(collectionName, {wait: true, points}) on the default client
\* (getQdrantClient() without a school), then the progress report
IngestUpsert(p) ==
    /\ ing[p].pc = "upsert"
    /\ LET r  == ing[p]
           cl == getCluster(NoSchool)
       IN  IF ~Exists(cl, r.collectionName)
           THEN /\ IngSet(p, IngThrow([r EXCEPT !.upserts = @ + 1]))
                /\ UNCHANGED <<store, del>>
           ELSE LET processed == r.processedChunks + Cardinality(DOMAIN r.pending)
                    ids == SortedIds(DOMAIN r.pending)
                    r2 == [r EXCEPT !.processedChunks = processed,
                                    !.progress = Append(@, Percent(processed, r.totalChunks)),
                                    !.batchStart = @ + r.batchSize,
                                    !.upserts = @ + 1,
                                    !.upsertClient = cl,
                                    !.sent = @ \o [k \in 1..Len(ids) |->
                                                     [id |-> ids[k], payload |-> r.pending[ids[k]]]],
                                    !.pending = <<>>]
                IN  /\ store' = SetPoints(cl, r.collectionName,
                                    Upsert(store[cl][r.collectionName].points, r.pending))
                    /\ del' = NoteUpsert(del, r.pending)
                    /\ IngSet(p, IF r2.batchStart < r2.totalChunks
                                 THEN [r2 EXCEPT !.pc = "embed"]
                                 ELSE [r2 EXCEPT !.pc = "done", !.result = "true"])
    /\ UNCHANGED <<admins, members, srch, call, req, cfg, now>>

\* client.upsert throws: the call fails
IngestUpsertFail(p) ==
    /\ ing[p].pc = "upsert"
    /\ IngSet(p, IngThrow([ing[p] EXCEPT !.upserts = @ + 1]))
    /\ UNCHANGED <<admins, members, srch, call, req, cfg, store, now, del>>

\* time passes
Tick ==
    /\ now < MaxTime
    /\ now' = now + 1
    /\ UNCHANGED <<admins, members, srch, call, req, cfg, store, del, ing>>

----------------------------------------------------------------------------
(* deleteDocumentByFileName and deleteDocumentByFileNameClientSide *)

\* before, removed, touched and ingested record the call's history for the
\* claims: the points when the call started, the points the call removed (as they
\* were when removed), and the ids and file names upserted since the call started
DelIdle ==
    [pc |-> "idle", collectionName |-> <<>>, fileName |-> "", schoolId |-> NoSchool,
     allPoints |-> <<>>, nextOffset |-> NullOffset, pointIds |-> <<>>, i |-> 0,
     primary |-> "none", result |-> "none", fallbacks |-> 0,
     client |-> Unregistered,
     before |-> <<>>, removed |-> {}, touched |-> {}, ingested |-> {}]

DelThrow(d) == [d EXCEPT !.pc = "done", !.result = "throw"]

\* `while (nextOffset)`: undefined, null and 0 end the loop
Truthy(offset) == offset # NullOffset /\ offset # 0

\* the client-side filter of the fallback (lines 794-802)
ClientSideMatchesNoSchool(point, fileName, schoolId) ==
    point.metadata.fileName = fileName

ClientSideMatches(point, fileName, schoolId) ==
    LET fileNameMatches == point.metadata.fileName = fileName
        schoolMatches   == schoolId = NoSchool \/ point.metadata.schoolId = schoolId
    IN  fileNameMatches /\ schoolMatches

\* the store-side filtered delete as the store applies it
FilteredDeleteIgnoringSchool(points, fileName, schoolId) ==
    DeleteByFilter(points, fileName, NoSchool)

FilteredDelete(points, fileName, schoolId) ==
    DeleteByFilter(points, fileName, schoolId)

Removed(before, after) ==
    {[id |-> id, payload |-> before[id]] : id \in DOMAIN before \ DOMAIN after}

\* the call starts; getQdrantClient() takes the default client
DeleteCall(collectionName, fileName, schoolId) ==
    [DelIdle EXCEPT
        !.pc = "primary", !.collectionName = collectionName,
        !.fileName = fileName, !.schoolId = schoolId,
        !.client = getCluster(NoSchool),
        !.before = IF Exists(getCluster(NoSchool), collectionName)
                   THEN store[getCluster(NoSchool)][collectionName].points
                   ELSE <<>>]

\* a call of deleteDocumentByFileName
DeleteStart(collectionName, fileName, schoolId) ==
    /\ del.pc = "idle"
    /\ del' = DeleteCall(collectionName, fileName, schoolId)
    /\ UNCHANGED <<admins, members, srch, call, req, cfg, store, now, ing>>

\* client.delete(collectionName, {wait: true, filter: {must}}) succeeds: return true
DeletePrimary ==
    /\ del.pc = "primary"
    /\ Exists(getCluster(NoSchool), del.collectionName)
    /\ LET cl  == getCluster(NoSchool)
           pts == store[cl][del.collectionName].points
           new == FilteredDelete(pts, del.fileName, del.schoolId)
       IN  /\ store' = SetPoints(cl, del.collectionName, new)
           /\ del' = [del EXCEPT !.pc = "done", !.result = "true", !.primary = "ok",
                                 !.removed = @ \cup Removed(pts, new)]
    /\ UNCHANGED <<admins, members, srch, call, req, cfg, now, ing>>

\* the filtered delete throws and the call rethrows without any fallback
DeletePrimaryFailRethrows ==
    /\ del.pc = "primary"
    /\ del' = DelThrow([del EXCEPT !.primary = "failed"])
    /\ UNCHANGED <<admins, members, srch, call, req, cfg, store, now, ing>>

\* the filtered delete throws (filter refused, collection missing, transport):
\* the catch block calls the client-side fallback; del.fallbacks counts the
\* calls of deleteDocumentByFileNameClientSide
DeletePrimaryFail ==
    /\ del.pc = "primary"
    /\ del' = [del EXCEPT !.pc = "scroll", !.primary = "failed", !.fallbacks = @ + 1]
    /\ UNCHANGED <<admins, members, srch, call, req, cfg, store, now, ing>>

\* one client.scroll(collectionName, {limit: 1000, offset: nextOffset}) of the
\* do-while loop; after the last page the points are filtered client-side, and
\* with no match the fallback returns true
ClientScroll ==
    /\ del.pc = "scroll"
    /\ LET cl == getCluster(NoSchool)
       IN  IF ~Exists(cl, del.collectionName)
           THEN del' = DelThrow(del)
           ELSE LET result    == Scroll(store[cl][del.collectionName].points,
                                        del.nextOffset, ScrollLimit)
                    allPoints == del.allPoints \o result.points
                    matching  == SelectSeq(allPoints,
                                    LAMBDA pt : ClientSideMatches(pt.payload, del.fileName,
                                                                  del.schoolId))
                    pointIds  == [k \in 1..Len(matching) |-> matching[k].id]
                IN  IF Truthy(result.next_page_offset)
                    THEN del' = [del EXCEPT !.allPoints = allPoints,
                                            !.nextOffset = result.next_page_offset]
                    ELSE IF Len(matching) = 0
                    THEN del' = [del EXCEPT !.allPoints = allPoints,
                                            !.nextOffset = result.next_page_offset,
                                            !.pc = "done", !.result = "true"]
                    ELSE del' = [del EXCEPT !.allPoints = allPoints,
                                            !.nextOffset = result.next_page_offset,
                                            !.pointIds = pointIds, !.i = 0,
                                            !.pc = "deleteBatch"]
    /\ UNCHANGED <<admins, members, srch, call, req, cfg, store, now, ing>>

\* a scroll request throws: the fallback rethrows
ClientScrollFail ==
    /\ del.pc = "scroll"
    /\ del' = DelThrow(del)
    /\ UNCHANGED <<admins, members, srch, call, req, cfg, store, now, ing>>

\* one client.delete(collectionName, {wait: true, points: batch}) of the id-batch
\* loop; after the last batch the fallback returns true
ClientDeleteBatch ==
    /\ del.pc = "deleteBatch"
    /\ LET cl == getCluster(NoSchool)
       IN  IF ~Exists(cl, del.collectionName)
           THEN /\ del' = DelThrow(del)
                /\ UNCHANGED store
           ELSE LET last  == Min(del.i + DeleteBatchSize, Len(del.pointIds))
                    batch == {del.pointIds[k] : k \in del.i + 1 .. last}
                    pts   == store[cl][del.collectionName].points
                    new   == DeleteByIds(pts, batch)
                    d2    == [del EXCEPT !.i = @ + DeleteBatchSize,
                                         !.removed = @ \cup Removed(pts, new)]
                IN  /\ store' = SetPoints(cl, del.collectionName, new)
                    /\ del' = IF d2.i < Len(d2.pointIds) THEN d2
                              ELSE [d2 EXCEPT !.pc = "done", !.result = "true"]
    /\ UNCHANGED <<admins, members, srch, call, req, cfg, now, ing>>

\* an id-batch delete throws: the fallback rethrows
ClientDeleteBatchFail ==
    /\ del.pc = "deleteBatch"
    /\ del' = DelThrow(del)
    /\ UNCHANGED <<admins, members, srch, call, req, cfg, store, now, ing>>

----------------------------------------------------------------------------
(* Strings *)

Space == " "
IsSpace(ch) == ch = Space
Includes(s, ch) == \E k \in 1..Len(s) : s[k] = ch

\* s.replace(/\s+/g, '_'): every run of whitespace becomes one underscore
RECURSIVE ReplaceSpaces(_)
ReplaceSpaces(s) ==
    IF s = <<>> THEN <<>>
    ELSE IF IsSpace(Head(s))
         THEN IF Len(s) > 1 /\ IsSpace(s[2]) THEN ReplaceSpaces(Tail(s))
              ELSE <<"_">> \o ReplaceSpaces(Tail(s))
         ELSE <<Head(s)>> \o ReplaceSpaces(Tail(s))

\* s.match(/^(.+)\s+\((.+)\)$/): the positions q of a '(' that is preceded by
\* whitespace and a non-empty group and followed by a non-empty group and the
\* closing ')' that ends the string; the greedy first group takes the last one
MatchPositions(s) ==
    {q \in 3 .. Len(s) - 2 : s[q] = "(" /\ IsSpace(s[q - 1]) /\ s[Len(s)] = ")"}

Last(S) == CHOOSE x \in S : \A y \in S : y <= x

\* lines 196-209: the physical collection name of an entry of collectionNames
ActualCollectionName(displayCollectionName, schoolId) ==
    IF /\ schoolId # NoSchool
       /\ ~Includes(displayCollectionName, "(")
       /\ ~Includes(displayCollectionName, "_")
    THEN Underscore(schoolId, displayCollectionName)
    ELSE IF /\ Includes(displayCollectionName, "(")
            /\ Includes(displayCollectionName, ")")
            /\ MatchPositions(displayCollectionName) # {}
    THEN LET q == Last(MatchPositions(displayCollectionName))
             collectionPart == SubSeq(displayCollectionName, 1, q - 2)
             schoolPart == SubSeq(displayCollectionName, q + 1,
                                  Len(displayCollectionName) - 1)
         IN  Underscore(schoolPart, ReplaceSpaces(collectionPart))
    ELSE displayCollectionName

----------------------------------------------------------------------------
(* searchKnowledge *)

\* the embedding model, as far as ranking goes: a text's vector is a number and
\* the similarity of two vectors falls with their distance
Embedding(text) == IF text = "x" THEN 0 ELSE IF text = "y" THEN 1 ELSE 2
Similarity(v, w) == 2 - (IF v < w THEN w - v ELSE v - w)

\* insertion of x before the elements of equal score
RECURSIVE InsertByScoreUnstable(_, _)
InsertByScoreUnstable(sorted, x) ==
    IF sorted = <<>> THEN <<x>>
    ELSE IF Head(sorted).score > x.score
         THEN <<Head(sorted)>> \o InsertByScoreUnstable(Tail(sorted), x)
         ELSE <<x>> \o sorted

\* insertion of x behind every element that does not sort after it
RECURSIVE InsertByScore(_, _)
InsertByScore(sorted, x) ==
    IF sorted = <<>> THEN <<x>>
    ELSE IF Head(sorted).score >= x.score
         THEN <<Head(sorted)>> \o InsertByScore(Tail(sorted), x)
         ELSE <<x>> \o sorted

\* results.sort((a, b) => b.score - a.score): descending, stable
RECURSIVE SortByScore(_)
SortByScore(results) ==
    IF results = <<>> THEN <<>>
    ELSE InsertByScore(SortByScore(SubSeq(results, 1, Len(results) - 1)),
                       results[Len(results)])

\* .slice(0, limit)
Slice(s, limit) == SubSeq(s, 1, Min(limit, Len(s)))

\* a search request without filter
SearchFilterNone(point, schoolId) == TRUE

\* the filter of the search request: metadata.schoolId when a school is given
SearchFilter(point, schoolId) ==
    schoolId # NoSchool => point.metadata.schoolId = schoolId

\* query_filter of a hybrid or exact search: the text matches the query
QueryFilter(point, query, strategy) ==
    strategy \in {"hybrid", "exact"} => point.text = query

\* client.search(name, {vector, limit, filter, query_filter, with_payload}): the
\* `limit` best points that pass the filters, best first, ties in id order
StoreSearch(points, query, limit, schoolId, strategy) ==
    LET ids  == SortedIds({id \in DOMAIN points :
                              /\ SearchFilter(points[id], schoolId)
                              /\ QueryFilter(points[id], query, strategy)})
        hits == [k \in 1..Len(ids) |->
                    [id |-> ids[k],
                     score |-> Similarity(Embedding(query), Embedding(points[ids[k]].text)),
                     payload |-> points[ids[k]]]]
    IN  Slice(SortByScore(hits), limit)

\* lines 257-266: sort the pool, cut it to limit, keep text, metadata and score
RankedResults(results, limit) ==
    LET sortedResults == Slice(SortByScore(results), limit)
    IN  [k \in 1..Len(sortedResults) |->
            [text |-> sortedResults[k].payload.text,
             metadata |-> sortedResults[k].payload.metadata,
             score |-> sortedResults[k].score]]

\* attempted and failed record the call's history for the claims: the physical
\* names the store was asked to search, and the positions of collectionNames
\* whose search failed
SrchIdle ==
    [pc |-> "idle", query |-> "", collectionNames |-> <<>>, limit |-> 0,
     schoolId |-> NoSchool, strategy |-> "", client |-> Unregistered, idx |-> 0,
     results |-> <<>>, returned |-> <<>>, result |-> "none",
     embedded |-> FALSE, attempted |-> <<>>, failed |-> {}]

\* the return at line 262
SearchReturn(s) ==
    [s EXCEPT !.pc = "done", !.result = "returned",
              !.returned = RankedResults(s.results, s.limit)]

\* the outer catch: console.error and return []
SearchCatchThrows(s) ==
    [s EXCEPT !.pc = "done", !.result = "throw"]

SearchCatch(s) ==
    [s EXCEPT !.pc = "done", !.result = "returned", !.returned = <<>>]

\* the loop moves to the next entry of collectionNames, or to the sort
SearchAdvance(s) ==
    IF s.idx < Len(s.collectionNames) THEN [s EXCEPT !.idx = @ + 1]
    ELSE SearchReturn(s)

\* the call starts: generateEmbedding(query) is awaited
SearchCall(query, collectionNames, limit, schoolId, strategy) ==
    [SrchIdle EXCEPT !.pc = "embed", !.query = query,
                     !.collectionNames = collectionNames, !.limit = limit,
                     !.schoolId = schoolId, !.strategy = strategy]

\* a call of searchKnowledge
SearchStart(query, collectionNames, limit, schoolId, strategy) ==
    /\ srch.pc = "idle"
    /\ call.op = "none"
    /\ srch' = SearchCall(query, collectionNames, limit, schoolId, strategy)
    /\ UNCHANGED <<admins, members, cfg, store, now, del, ing, call, req>>

\* generateEmbedding(query) returned; getQdrantClient(schoolId) is resolved (a
\* throw lands in the outer catch) and the loop over collectionNames starts
SearchEmbed ==
    /\ srch.pc = "embed"
    /\ LET s == [srch EXCEPT !.embedded = TRUE, !.client = getCluster(srch.schoolId)]
       IN  srch' = IF s.client = Unregistered THEN SearchCatch(s)
                   ELSE IF s.collectionNames = <<>> THEN SearchReturn(s)
                   ELSE [s EXCEPT !.pc = "search", !.idx = 1]
    /\ UNCHANGED <<admins, members, cfg, store, now, del, ing, call, req>>

\* generateEmbedding throws: the outer catch returns []
SearchEmbedFail ==
    /\ srch.pc = "embed"
    /\ srch' = SearchCatch(srch)
    /\ UNCHANGED <<admins, members, cfg, store, now, del, ing, call, req>>

\* a per-collection failure that reaches the outer catch
SearchSkipAborts(s) == SearchCatch([s EXCEPT !.failed = @ \cup {s.idx}])

\* a per-collection search failed: the inner catch warns and the loop goes on
SearchSkip(s) == SearchAdvance([s EXCEPT !.failed = @ \cup {s.idx}])

\* client.search on the idx-th entry: its results join the pool; a collection
\* the store does not have is an error, caught and skipped
SearchCollection ==
    /\ srch.pc = "search"
    /\ LET actualCollectionName ==
               ActualCollectionName(srch.collectionNames[srch.idx], srch.schoolId)
           s == [srch EXCEPT !.attempted = Append(@, actualCollectionName)]
       IN  IF ~Exists(s.client, actualCollectionName)
           THEN srch' = SearchSkip(s)
           ELSE srch' = SearchAdvance(
                   [s EXCEPT !.results = @ \o
                       StoreSearch(store[s.client][actualCollectionName].points,
                                   s.query, s.limit, s.schoolId, s.strategy)])
    /\ UNCHANGED <<admins, members, cfg, store, now, del, ing, call, req>>

\* client.search throws for another reason (transport, store error)
SearchCollectionFail ==
    /\ srch.pc = "search"
    /\ LET actualCollectionName ==
               ActualCollectionName(srch.collectionNames[srch.idx], srch.schoolId)
       IN  srch' = SearchSkip([srch EXCEPT !.attempted = Append(@, actualCollectionName)])
    /\ UNCHANGED <<admins, members, cfg, store, now, del, ing, call, req>>

----------------------------------------------------------------------------
(* listDocuments, getCollectionDocumentCount, listKnowledgeCollections: one store
   request each; call records the call and what its caller got *)

\* the scroll limit of listDocuments and getCollectionDocumentCount (the code
\* asks for 10000 points)
ScanLimit == 2

\* the points a filtered scroll may return: those of the school, when one is given
SchoolFilter(points, schoolId) ==
    Restrict(points, {id \in DOMAIN points : SearchFilter(points[id], schoolId)})

\* lines 620-662: one entry per fileName in order of first appearance, counting
\* the chunks seen; a chunk without fileName is skipped
RECURSIVE GroupByFileName(_)
GroupByFileName(pts) ==
    IF pts = <<>> THEN <<>>
    ELSE LET docs  == GroupByFileName(SubSeq(pts, 1, Len(pts) - 1))
             point == pts[Len(pts)].payload
             fileName == point.metadata.fileName
         IN  IF fileName = "" THEN docs
             ELSE IF \E k \in 1..Len(docs) : docs[k].fileName = fileName
             THEN [k \in 1..Len(docs) |->
                      IF docs[k].fileName = fileName
                      THEN [docs[k] EXCEPT !.chunkCount = @ + 1]
                      ELSE docs[k]]
             ELSE Append(docs, [fileName |-> fileName,
                                metadata |-> point.metadata,
                                chunkCount |-> 1,
                                totalChunks |-> IF point.totalChunks = 0 THEN 1
                                                ELSE point.totalChunks,
                                uploadedAt |-> point.metadata.uploadedAt])

RECURSIVE InsertByUploadedAt(_, _)
InsertByUploadedAt(sorted, x) ==
    IF sorted = <<>> THEN <<x>>
    ELSE IF Head(sorted).uploadedAt >= x.uploadedAt
         THEN <<Head(sorted)>> \o InsertByUploadedAt(Tail(sorted), x)
         ELSE <<x>> \o sorted

\* documents.sort((a, b) => new Date(b.uploadedAt) - new Date(a.uploadedAt))
RECURSIVE SortByUploadedAt(_)
SortByUploadedAt(docs) ==
    IF docs = <<>> THEN <<>>
    ELSE InsertByUploadedAt(SortByUploadedAt(SubSeq(docs, 1, Len(docs) - 1)),
                            docs[Len(docs)])

\* the filter that listDocuments hands to its scroll
ListFilterNone(points, schoolId) == points

ListFilter(points, schoolId) == SchoolFilter(points, schoolId)

\* listDocuments(collectionName, schoolId, limit, offset) on the default client;
\* the offset goes to the scroll, the limit to the slice of the grouped list
ListDocumentsCall(collectionName, schoolId, limit, offset) ==
    LET cl == getCluster(NoSchool)
    IN  IF ~Exists(cl, collectionName)
        THEN [op |-> "listDocuments", args |-> CallArgs(collectionName, limit, offset),
              schoolId |-> schoolId, client |-> cl,
              outcome |-> "returned",
              value |-> [documents |-> <<>>, nextOffset |-> NullOffset,
                         totalDocuments |-> 0]]
        ELSE LET result == Scroll(ListFilter(store[cl][collectionName].points, schoolId),
                                  offset, ScanLimit)
                 documents == SortByUploadedAt(GroupByFileName(result.points))
             IN  [op |-> "listDocuments", args |-> CallArgs(collectionName, limit, offset),
                  schoolId |-> schoolId, client |-> cl,
                  outcome |-> "returned",
                  value |-> [documents |-> Slice(documents, limit),
                             nextOffset |-> IF Len(documents) > limit
                                            THEN offset + limit ELSE NullOffset,
                             totalDocuments |-> Len(documents)]]

ListDocuments(collectionName, schoolId, limit, offset) ==
    /\ call.op = "none" /\ srch.pc = "idle"
    /\ call' = ListDocumentsCall(collectionName, schoolId, limit, offset)
    /\ UNCHANGED <<admins, members, cfg, store, now, del, ing, srch, req>>

\* getCollectionDocumentCount(collectionName, schoolId) on the default client: the
\* number of distinct file names; 0 from the catch block
GetCollectionDocumentCountCall(collectionName, schoolId) ==
    LET cl == getCluster(NoSchool)
    IN  IF ~Exists(cl, collectionName)
        THEN [op |-> "getCollectionDocumentCount",
              args |-> CallArgs(collectionName, 0, 0), schoolId |-> schoolId,
              client |-> cl, outcome |-> "returned", value |-> 0]
        ELSE LET result == Scroll(SchoolFilter(store[cl][collectionName].points, schoolId),
                                  NullOffset, ScanLimit)
                 uniqueFiles == {result.points[k].payload.metadata.fileName :
                                    k \in 1..Len(result.points)} \ {""}
             IN  [op |-> "getCollectionDocumentCount",
                  args |-> CallArgs(collectionName, 0, 0), schoolId |-> schoolId,
                  client |-> cl, outcome |-> "returned",
                  value |-> Cardinality(uniqueFiles)]

GetCollectionDocumentCount(collectionName, schoolId) ==
    /\ call.op = "none" /\ srch.pc = "idle"
    /\ call' = GetCollectionDocumentCountCall(collectionName, schoolId)
    /\ UNCHANGED <<admins, members, cfg, store, now, del, ing, srch, req>>

\* listKnowledgeCollections(schoolId) on the client of the school: the names of
\* its collections; [] from the catch block, also when getQdrantClient throws
ListKnowledgeCollectionsCall(schoolId) ==
    LET cl == getCluster(schoolId)
    IN  [op |-> "listKnowledgeCollections", args |-> CallArgs(<<>>, 0, 0),
         schoolId |-> schoolId,
         client |-> cl, outcome |-> "returned",
         value |-> IF cl = Unregistered THEN {} ELSE DOMAIN store[cl]]

ListKnowledgeCollections(schoolId) ==
    /\ call.op = "none" /\ srch.pc = "idle"
    /\ call' = ListKnowledgeCollectionsCall(schoolId)
    /\ UNCHANGED <<admins, members, cfg, store, now, del, ing, srch, req>>

\* deleteCollection: the client of schoolId, the existence test and
\* client.deleteCollection; every error is thrown again
DeleteCollectionCall(collectionName, schoolId) ==
    LET cl == getCluster(schoolId)
    IN  [op |-> "deleteCollection", args |-> CallArgs(collectionName, 0, 0),
         schoolId |-> schoolId, client |-> cl,
         outcome |-> IF cl = Unregistered THEN "throw" ELSE "returned",
         value |-> cl # Unregistered]

DeleteCollectionStore(collectionName, schoolId) ==
    LET cl == getCluster(schoolId)
    IN  IF ~Exists(cl, collectionName) THEN store
        ELSE [store EXCEPT ![cl] = Restrict(@, DOMAIN @ \ {collectionName})]

\* the ingest calls' record of a successful ensureCollection ends with the
\* collection
NoteDeleteCollection(collectionName, schoolId) ==
    [p \in Procs |->
        IF /\ ing[p].collectionName = collectionName
           /\ getCluster(ing[p].metadata.schoolId) = getCluster(schoolId)
           /\ Exists(getCluster(schoolId), collectionName)
        THEN [ing[p] EXCEPT !.ensured = FALSE, !.after = FALSE]
        ELSE ing[p]]

DeleteCollection(collectionName, schoolId) ==
    /\ call.op = "none" /\ srch.pc = "idle"
    /\ call' = DeleteCollectionCall(collectionName, schoolId)
    /\ store' = DeleteCollectionStore(collectionName, schoolId)
    /\ ing' = NoteDeleteCollection(collectionName, schoolId)
    /\ UNCHANGED <<admins, members, cfg, now, del, srch, req>>

----------------------------------------------------------------------------
(* The API routes: chat POST, knowledge upload POST, knowledge GET, POST and
   DELETE. A handler runs to the library call it awaits; RouteRespond is its
   continuation once that call has finished. req.log lists, in the order of
   the handler's code, the getUserSchoolAccessAdmin calls with their results
   and the library operations the request invoked. *)

\* getUserSchoolAccessAdmin: true for 'awsna', else whether the document
\* schools/{schoolId}/users/{userId} exists; false when the read throws
getUserSchoolAccessAdmin(userId, schoolId, dbOk) ==
    IF schoolId = Awsna THEN TRUE
    ELSE IF ~dbOk THEN FALSE
    ELSE <<userId, schoolId>> \in members

AccessEvent(userId, schoolId, result) ==
    [kind |-> "access", name |-> "getUserSchoolAccessAdmin", userId |-> userId,
     schoolId |-> schoolId, result |-> result]

OpEvent(name, userId, schoolId) ==
    [kind |-> "op", name |-> name, userId |-> userId, schoolId |-> schoolId,
     result |-> TRUE]

Respond(route, userId, schoolId, log, status) ==
    [pc |-> "responded", route |-> route, userId |-> userId, schoolId |-> schoolId,
     log |-> log, status |-> status]

Await(route, userId, schoolId, log) ==
    [pc |-> "waiting", route |-> route, userId |-> userId, schoolId |-> schoolId,
     log |-> log, status |-> 0]

\* `${schoolId}_${collection}` when a schoolId was sent, else the collection
QdrantCollectionName(schoolId, collection) ==
    IF schoolId # NoSchool THEN Underscore(schoolId, collection) ELSE collection

\* the limit the chat route passes to searchKnowledge
ChatSearchLimit == 5

\* chat POST: the token is verified and its uid compared with the body's userId;
\* with useKnowledgeBase and a schoolId, searchKnowledge is called for the last
\* user message
ChatPost(tokenUid, userId, schoolId, useKnowledgeBase, knowledgeCollections, message) ==
    /\ req.pc = "idle" /\ srch.pc = "idle" /\ call.op = "none"
    /\ IF tokenUid = NoUser
       THEN /\ req' = Respond("chat", NoUser, schoolId, <<>>, 401)
            /\ srch' = srch
       ELSE IF tokenUid # userId
       THEN /\ req' = Respond("chat", tokenUid, schoolId, <<>>, 403)
            /\ srch' = srch
       ELSE IF useKnowledgeBase /\ schoolId # NoSchool /\ message # ""
       THEN /\ srch' = SearchCall(message, knowledgeCollections,
                                  ChatSearchLimit, schoolId, "hybrid")
            /\ req' = Await("chat", userId, schoolId,
                            <<OpEvent("searchKnowledge", userId, schoolId)>>)
       ELSE /\ req' = Respond("chat", userId, schoolId, <<>>, 200)
            /\ srch' = srch
    /\ UNCHANGED <<admins, members, cfg, store, now, del, ing, call>>

\* knowledge upload POST: the token is verified, the metadata is built from the
\* form and uploadDocumentToQdrant is called; the file's chunks stand for its
\* content
UploadPost(tokenUid, fileName, collectionName, schoolId, chunks) ==
    /\ req.pc = "idle" /\ ing[1].pc = "idle"
    /\ IF tokenUid = NoUser
       THEN /\ req' = Respond("upload", NoUser, schoolId, <<>>, 401)
            /\ ing' = ing
       ELSE IF collectionName = <<>>
       THEN /\ req' = Respond("upload", tokenUid, schoolId, <<>>, 400)
            /\ ing' = ing
       ELSE /\ ing' = [ing EXCEPT ![1] =
                          IngestCall(QdrantCollectionName(schoolId, collectionName),
                                     [fileName |-> fileName, schoolId |-> schoolId,
                                      uploadedAt |-> now],
                                     chunks)]
            /\ req' = Await("upload", tokenUid, schoolId,
                            <<OpEvent("uploadDocumentToQdrant", tokenUid, schoolId)>>)
    /\ UNCHANGED <<admins, members, cfg, store, now, del, srch, call>>

\* knowledge GET: the access check is made for a schoolId other than 'awsna';
\* then the action parameter selects the library operation
KnowledgeGet(tokenUid, action, schoolId, collection, limit, offset, dbOk) ==
    /\ req.pc = "idle" /\ srch.pc = "idle" /\ call.op = "none"
    /\ LET checked   == schoolId # NoSchool /\ schoolId # Awsna
           hasAccess == getUserSchoolAccessAdmin(tokenUid, schoolId, dbOk)
           log       == IF checked THEN <<AccessEvent(tokenUid, schoolId, hasAccess)>>
                        ELSE <<>>
           collectionName == QdrantCollectionName(schoolId, collection)
           Stop(status) == /\ req' = Respond("knowledge.GET", tokenUid, schoolId, log, status)
                           /\ UNCHANGED <<call, store, ing>>
           Done(name, status) ==
               req' = Respond("knowledge.GET", tokenUid, schoolId,
                              Append(log, OpEvent(name, tokenUid, schoolId)), status)
       IN  IF tokenUid = NoUser
           THEN /\ req' = Respond("knowledge.GET", NoUser, schoolId, <<>>, 401)
                /\ UNCHANGED <<call, store, ing>>
           ELSE IF checked /\ ~hasAccess THEN Stop(403)
           ELSE IF action = "listCollections"
           THEN /\ call' = ListKnowledgeCollectionsCall(schoolId)
                /\ Done("listKnowledgeCollections", 200)
                /\ UNCHANGED <<store, ing>>
           ELSE IF action \in {"listDocuments", "getDocumentCount", "deleteCollection"}
                   /\ collection = <<>>
           THEN Stop(400)
           ELSE IF action = "listDocuments"
           THEN /\ call' = ListDocumentsCall(collectionName, schoolId, limit, offset)
                /\ Done("listDocuments", 200)
                /\ UNCHANGED <<store, ing>>
           ELSE IF action = "getDocumentCount"
           THEN /\ call' = GetCollectionDocumentCountCall(collectionName, schoolId)
                /\ Done("getCollectionDocumentCount", 200)
                /\ UNCHANGED <<store, ing>>
           ELSE IF action = "deleteCollection"
           THEN /\ call' = DeleteCollectionCall(collectionName, schoolId)
                /\ store' = DeleteCollectionStore(collectionName, schoolId)
                /\ ing' = NoteDeleteCollection(collectionName, schoolId)
                /\ Done("deleteCollection",
                        IF getCluster(schoolId) = Unregistered THEN 500 ELSE 200)
           ELSE Stop(400)
    /\ UNCHANGED <<admins, members, cfg, now, del, srch>>

\* knowledge POST: the parameters and the access check; the upload itself is a
\* placeholder
KnowledgePost(tokenUid, schoolId, collection, dbOk) ==
    /\ req.pc = "idle"
    /\ LET hasAccess == getUserSchoolAccessAdmin(tokenUid, schoolId, dbOk)
       IN  req' = IF tokenUid = NoUser
                  THEN Respond("knowledge.POST", NoUser, schoolId, <<>>, 401)
                  ELSE IF schoolId = NoSchool \/ collection = <<>>
                  THEN Respond("knowledge.POST", tokenUid, schoolId, <<>>, 400)
                  ELSE Respond("knowledge.POST", tokenUid, schoolId,
                               <<AccessEvent(tokenUid, schoolId, hasAccess)>>,
                               IF hasAccess THEN 200 ELSE 403)
    /\ UNCHANGED <<admins, members, cfg, store, now, del, ing, srch, call>>

\* knowledge DELETE: the parameters, the access check, then
\* deleteDocumentByFileName on `${schoolId}_${collection}`
KnowledgeDelete(tokenUid, schoolId, collection, fileName, dbOk) ==
    /\ req.pc = "idle" /\ del.pc = "idle"
    /\ LET hasAccess == getUserSchoolAccessAdmin(tokenUid, schoolId, dbOk)
           log       == <<AccessEvent(tokenUid, schoolId, hasAccess)>>
       IN  IF tokenUid = NoUser
           THEN /\ req' = Respond("knowledge.DELETE", NoUser, schoolId, <<>>, 401)
                /\ del' = del
           ELSE IF schoolId = NoSchool \/ collection = <<>> \/ fileName = ""
           THEN /\ req' = Respond("knowledge.DELETE", tokenUid, schoolId, <<>>, 400)
                /\ del' = del
           ELSE IF ~hasAccess
           THEN /\ req' = Respond("knowledge.DELETE", tokenUid, schoolId, log, 403)
                /\ del' = del
           ELSE /\ del' = DeleteCall(Underscore(schoolId, collection), fileName, schoolId)
                /\ req' = Await("knowledge.DELETE", tokenUid, schoolId,
                                Append(log, OpEvent("deleteDocumentByFileName",
                                                    tokenUid, schoolId)))
    /\ UNCHANGED <<admins, members, cfg, store, now, ing, srch, call>>

\* the awaited library call has finished and the handler answers: the chat route
\* goes on to the model provider, the upload and delete routes answer 500 when
\* the call threw
RouteRespond ==
    /\ req.pc = "waiting"
    /\ \/ /\ req.route = "chat"
          /\ srch.pc = "done"
          /\ req' = [req EXCEPT !.pc = "responded", !.status = 200]
       \/ /\ req.route = "upload"
          /\ ing[1].pc = "done"
          /\ req' = [req EXCEPT !.pc = "responded",
                                !.status = IF ing[1].result = "throw" THEN 500 ELSE 200]
       \/ /\ req.route = "knowledge.DELETE"
          /\ del.pc = "done"
          /\ req' = [req EXCEPT !.pc = "responded",
                                !.status = IF del.result = "throw" THEN 500 ELSE 200]
    /\ UNCHANGED <<admins, members, cfg, store, now, del, ing, srch, call>>

----------------------------------------------------------------------------
(* SpecDelete: one deleteDocumentByFileName call on a collection of any content,
   with one ingest call and the clock running beside it. The contents and the
   ingest range over both files and both schools, so the delete of file f, for
   school a or for no school, stands for every delete call. *)

\* the deployment of the source: single cluster, empty SCHOOL_CLUSTER_MAPPING
SourceCfg == [mode |-> "SINGLE_CLUSTER", mapping |-> <<>>]

ReadyCollection(points) ==
    [vectors |-> VectorParams,
     indexes |-> {PayloadIndexes[k] : k \in 1..Len(PayloadIndexes)},
     points  |-> points]

StoredPoint(fileName, schoolId) ==
    [text |-> "x",
     metadata |-> [fileName |-> fileName, schoolId |-> schoolId, uploadedAt |-> 0],
     chunkIndex |-> 0, totalChunks |-> 1]

\* every content of a collection over the ids 0..MaxId
Contents ==
    UNION {[ids -> {StoredPoint(f, t) : f \in Files, t \in SchoolIds}] :
              ids \in SUBSET (0..MaxId)}

EmptyStore == [cl \in AllClusters |-> <<>>]

InitDelete ==
    /\ cfg = SourceCfg
    /\ \E pts \in Contents :
          store = [EmptyStore EXCEPT ![DefaultCluster] = (CollA :> ReadyCollection(pts))]
    /\ now = 0
    /\ del = DelIdle
    /\ ing = [p \in Procs |-> IngIdle]
    /\ srch = SrchIdle
    /\ call = CallNone
    /\ req = ReqIdle
    /\ members = {}
    /\ admins = NoAdmins

NextDelete ==
    \/ \E t \in {SchoolA, NoSchool} : DeleteStart(CollA, "f", t)
    \/ DeletePrimary
    \/ DeletePrimaryFail
    \/ ClientScroll
    \/ ClientScrollFail
    \/ ClientDeleteBatch
    \/ ClientDeleteBatchFail
    \/ \E f \in Files, t \in SchoolIds, n \in 1..MaxChunks :
          /\ ing[1].pc = "idle"
          /\ IngestStart(1, CollA, [fileName |-> f, schoolId |-> t, uploadedAt |-> 0],
                         [k \in 1..n |-> "x"])
    \/ EnsureGetCollections(1)
    \/ IngestEmbed(1)
    \/ IngestUpsert(1)
    \/ Tick

SpecDelete == InitDelete /\ [][NextDelete]_vars

\* the points of the collection the delete call works on
DelPoints == store[getCluster(NoSchool)][del.collectionName].points

IsOf(point, fileName, schoolId) ==
    point.metadata.fileName = fileName /\ point.metadata.schoolId = schoolId

\* C1: once deleteDocumentByFileName(collection, f, t) has returned true, and no
\* chunk of f was ingested since the call started, the collection holds no chunk
\* of file f and school t, and every chunk of another file or another school that
\* was there when the call started (and that no upsert has overwritten since) is
\* still there, unchanged.
C1_DeletionCompleteness ==
    (/\ del.pc = "done" /\ del.result = "true"
     /\ del.schoolId # NoSchool
     /\ del.fileName \notin del.ingested)
    => /\ \A id \in DOMAIN DelPoints :
             ~IsOf(DelPoints[id], del.fileName, del.schoolId)
       /\ \A id \in DOMAIN del.before \ del.touched :
             ~IsOf(del.before[id], del.fileName, del.schoolId)
             => id \in DOMAIN DelPoints /\ DelPoints[id] = del.before[id]

\* C1 witness: a call for (f, a) returned true on a collection that held a chunk
\* of (f, a), a chunk of f of the other school and a chunk of the other file
C1_Witness ==
    /\ del.pc = "done" /\ del.result = "true" /\ del.primary = "ok"
    /\ del.fileName = "f" /\ del.schoolId = SchoolA
    /\ del.ingested = {}
    /\ \E i1, i2, i3 \in DOMAIN del.before :
          /\ IsOf(del.before[i1], "f", SchoolA)
          /\ IsOf(del.before[i2], "f", SchoolB)
          /\ IsOf(del.before[i3], "g", SchoolA)

\* C2: a call whose filtered delete failed and whose fallback returned true, with
\* no upsert in between, leaves the collection exactly as the filtered delete
\* would have left the collection the call started on.
C2_FallbackEquivalence ==
    (/\ del.pc = "done" /\ del.result = "true"
     /\ del.primary = "failed"
     /\ del.touched = {})
    => DelPoints = FilteredDelete(del.before, del.fileName, del.schoolId)

\* C2 witness: the fallback has scrolled two pages, deleted two id batches and
\* returned true, on a collection that also held a chunk it had to keep
C2_Witness ==
    /\ del.pc = "done" /\ del.result = "true" /\ del.primary = "failed"
    /\ del.touched = {}
    /\ Len(del.allPoints) > ScrollLimit
    /\ Len(del.pointIds) > DeleteBatchSize
    /\ Cardinality(del.removed) = Len(del.pointIds)
    /\ DOMAIN DelPoints # {}

\* C3: every point a deleteDocumentByFileName call removes is, at the moment it
\* is removed, a chunk of the call's fileName and (when given) schoolId
C3_RemovesOnlyMatching ==
    \A r \in del.removed : FilterMatches(r.payload, del.fileName, del.schoolId)

----------------------------------------------------------------------------
(* SpecSearch: one searchKnowledge call or one listDocuments call on a store of
   two collections of any content *)

\* the largest limit a caller passes
MaxLimit == 2
\* the longest collectionNames list
MaxCollections == 2

\* display names: a plain name of an existing collection, an admin-qualified
\* name "c (b)", and a plain name no collection has
NameC == <<"c">>
NameCofB == <<"c", " ", "(", "b", ")">>
NameD == <<"d">>
DisplayNames == {NameC, NameCofB, NameD}

SearchPoint(fileName, schoolId, text) ==
    [text |-> text,
     metadata |-> [fileName |-> fileName, schoolId |-> schoolId, uploadedAt |-> 0],
     chunkIndex |-> 0, totalChunks |-> 1]

SearchContents(ids, files) ==
    UNION {[some -> {SearchPoint(f, t, x) : f \in files, t \in SchoolIds, x \in Texts}] :
              some \in SUBSET ids}

InitSearch ==
    /\ cfg = SourceCfg
    /\ \E ptsA \in SearchContents({0, 1}, Files), ptsB \in SearchContents({0}, {"f"}) :
          store = [EmptyStore EXCEPT ![DefaultCluster] =
                      (CollA :> ReadyCollection(ptsA)) @@ (CollB :> ReadyCollection(ptsB))]
    /\ now = 0
    /\ del = DelIdle
    /\ ing = [p \in Procs |-> IngIdle]
    /\ srch = SrchIdle
    /\ call = CallNone
    /\ req = ReqIdle
    /\ members = {}
    /\ admins = NoAdmins

\* the queries: one text suffices, the two texts are interchangeable
Queries == {"x"}

NameLists == UNION {[1..n -> DisplayNames] : n \in 0..MaxCollections}

NextSearch ==
    \/ \E query \in Queries, names \in NameLists, limit \in 1..MaxLimit,
          schoolId \in {SchoolA, NoSchool}, strategy \in {"hybrid", "semantic", "exact"} :
          SearchStart(query, names, limit, schoolId, strategy)
    \/ SearchEmbed
    \/ SearchEmbedFail
    \/ SearchCollection
    \/ SearchCollectionFail
    \/ \E name \in {CollA, CollB}, schoolId \in {SchoolA, NoSchool},
          limit \in 1..MaxLimit, offset \in 0..1 :
          ListDocuments(name, schoolId, limit, offset)

SpecSearch == InitSearch /\ [][NextSearch]_vars

\* C4: a searchKnowledge call and a listDocuments call made with a schoolId return
\* only results whose metadata.schoolId is that school
C4_ScopedIsolation ==
    /\ (srch.pc = "done" /\ srch.schoolId # NoSchool)
       => \A k \in 1..Len(srch.returned) :
             srch.returned[k].metadata.schoolId = srch.schoolId
    /\ (call.op = "listDocuments" /\ call.schoolId # NoSchool)
       => \A k \in 1..Len(call.value.documents) :
             call.value.documents[k].metadata.schoolId = call.schoolId

\* C4 witness: a search for school a returned a result after it searched the
\* collection b_c through the name "c (b)", and b_c holds a chunk of school b
\* that passes the text filter
C4_Witness ==
    /\ srch.pc = "done" /\ srch.schoolId = SchoolA
    /\ Len(srch.returned) >= 1
    /\ \E k \in 1..Len(srch.attempted) : srch.attempted[k] = CollB
    /\ \E id \in DOMAIN store[DefaultCluster][CollB].points :
          LET point == store[DefaultCluster][CollB].points[id]
          IN  point.metadata.schoolId = SchoolB /\ point.text = srch.query

Result(hit) == [text |-> hit.payload.text, metadata |-> hit.payload.metadata,
                score |-> hit.score]

RECURSIVE PoolUpTo(_)
PoolUpTo(n) ==
    IF n = 0 THEN <<>>
    ELSE PoolUpTo(n - 1) \o
         (IF n \in srch.failed THEN <<>>
          ELSE StoreSearch(
                  store[srch.client][ActualCollectionName(srch.collectionNames[n],
                                                          srch.schoolId)].points,
                  srch.query, srch.limit, srch.schoolId, srch.strategy))

\* C7: when the search of some collections fails, the call has still asked the
\* store for every entry of collectionNames, and it returns the ranked results
\* of all the collections whose search succeeded
C7_PartialFailureTolerated ==
    (srch.pc = "done" /\ srch.embedded /\ srch.client # Unregistered)
    => /\ Len(srch.attempted) = Len(srch.collectionNames)
       /\ srch.results = PoolUpTo(Len(srch.collectionNames))
       /\ srch.returned = RankedResults(PoolUpTo(Len(srch.collectionNames)), srch.limit)

\* C7 witness: the first collection's search succeeded with a result, the second
\* one's failed, and the result is returned
C7_Witness ==
    /\ srch.pc = "done" /\ Len(srch.collectionNames) = 2
    /\ srch.failed = {2}
    /\ Len(srch.returned) >= 1

\* C7 witness, the other order: the first collection's search failed, the second
\* one's succeeded with a result
C7_WitnessFirstFails ==
    /\ srch.pc = "done" /\ Len(srch.collectionNames) = 2
    /\ srch.failed = {1}
    /\ Len(srch.returned) >= 1

\* C8: searchKnowledge never ends in a raised error, and when the embedding of
\* the query fails it returns the empty list without a request to the store
C8_NeverRaises ==
    srch.pc = "done"
    => /\ srch.result = "returned"
       /\ ~srch.embedded => srch.returned = <<>> /\ srch.attempted = <<>>

\* C8 witness: the embedding failed on a call that had collections to search
C8_Witness ==
    /\ srch.pc = "done" /\ ~srch.embedded
    /\ Len(srch.collectionNames) = 2
    /\ srch.result = "returned"

----------------------------------------------------------------------------
(* SpecRoutes: one request to one of the API routes, by any caller, with any
   membership of the users in the schools, followed to its response. *)

RouteSchools == {NoSchool, SchoolA, SchoolB, Awsna}

InitRoutes ==
    /\ cfg = SourceCfg
    /\ store = [EmptyStore EXCEPT ![DefaultCluster] =
                   (CollA :> ReadyCollection(0 :> StoredPoint("f", SchoolA)))
                   @@ (CollB :> ReadyCollection(0 :> StoredPoint("f", SchoolB)))]
    /\ now = 0
    /\ del = DelIdle
    /\ ing = [p \in Procs |-> IngIdle]
    /\ srch = SrchIdle
    /\ call = CallNone
    /\ req = ReqIdle
    /\ members \in SUBSET (Users \X SchoolIds)
    /\ admins = NoAdmins

NextRoutes ==
    \/ \E tokenUid \in Users \cup {NoUser}, userId \in Users, schoolId \in RouteSchools,
          useKnowledgeBase \in BOOLEAN, names \in {<<>>, <<NameC>>},
          lastUserMessage \in {"", "x"} :
          ChatPost(tokenUid, userId, schoolId, useKnowledgeBase, names, lastUserMessage)
    \/ \E tokenUid \in Users \cup {NoUser}, fileName \in Files,
          collectionName \in {<<>>, NameC, NameD}, schoolId \in RouteSchools,
          n \in 1..MaxChunks :
          UploadPost(tokenUid, fileName, collectionName, schoolId, [k \in 1..n |-> "x"])
    \/ \E tokenUid \in Users \cup {NoUser}, schoolId \in RouteSchools,
          action \in {"listCollections", "listDocuments", "getDocumentCount",
                      "deleteCollection", "other"},
          collection \in {<<>>, NameC}, limit \in 1..MaxLimit, dbOk \in BOOLEAN :
          KnowledgeGet(tokenUid, action, schoolId, collection, limit, 0, dbOk)
    \/ \E tokenUid \in Users \cup {NoUser}, schoolId \in RouteSchools,
          collection \in {<<>>, NameC}, dbOk \in BOOLEAN :
          KnowledgePost(tokenUid, schoolId, collection, dbOk)
    \/ \E tokenUid \in Users \cup {NoUser}, schoolId \in RouteSchools,
          collection \in {<<>>, NameC}, fileName \in Files \cup {""}, dbOk \in BOOLEAN :
          KnowledgeDelete(tokenUid, schoolId, collection, fileName, dbOk)
    \/ RouteRespond
    \/ SearchEmbed
    \/ SearchEmbedFail
    \/ SearchCollection
    \/ EnsureGetCollections(1)
    \/ EnsureCreateCollection(1)
    \/ EnsureCreatePayloadIndex(1)
    \/ IngestEmbed(1)
    \/ IngestEmbedFail(1)
    \/ IngestUpsert(1)
    \/ IngestUpsertFail(1)
    \/ DeletePrimary
    \/ DeletePrimaryFail
    \/ ClientScroll
    \/ ClientDeleteBatch

SpecRoutes == InitRoutes /\ [][NextRoutes]_vars

TenantScopedOps ==
    {"searchKnowledge", "uploadDocumentToQdrant", "listDocuments",
     "getCollectionDocumentCount", "deleteDocumentByFileName"}

\* C5: in every request, a tenant-scoped library operation for school T on behalf
\* of user U comes after a getUserSchoolAccessAdmin(U, T) of the same request
\* that returned true
C5_AccessCheckedFirst ==
    \A k \in 1..Len(req.log) :
        (/\ req.log[k].kind = "op"
         /\ req.log[k].name \in TenantScopedOps
         /\ req.log[k].schoolId # NoSchool)
        => \E j \in 1..(k - 1) :
              req.log[j] = AccessEvent(req.log[k].userId, req.log[k].schoolId, TRUE)

\* C17: after an upload request whose ingest call failed, no chunk that the call
\* wrote remains in the collection (the stored payload has no field that marks
\* an ingestion as incomplete)
C17_FailedIngestLeavesNothing ==
    (req.route = "upload" /\ req.pc = "responded" /\ ing[1].result = "throw")
    => \A k \in 1..Len(ing[1].sent) :
          ing[1].sent[k].id \notin
              DOMAIN store[DefaultCluster][ing[1].collectionName].points

----------------------------------------------------------------------------
(* SpecResolve: one call of each library operation under a deployment whose
   school-to-cluster mapping may name a cluster the deployment mode does not
   register. *)

EnterpriseMapping == (SchoolA :> "enterprise")

ResolveCfgs ==
    {SourceCfg,
     [mode |-> "SINGLE_CLUSTER", mapping |-> EnterpriseMapping],
     [mode |-> "MULTI_CLUSTER", mapping |-> EnterpriseMapping]}

ResolveContents == {<<>>} \cup {(0 :> StoredPoint(f, SchoolA)) : f \in Files}

InitResolve ==
    /\ cfg \in ResolveCfgs
    /\ \E pts \in ResolveContents :
          store = [EmptyStore EXCEPT ![DefaultCluster] = (CollA :> ReadyCollection(pts))]
    /\ now = 0
    /\ del = DelIdle
    /\ ing = [p \in Procs |-> IngIdle]
    /\ srch = SrchIdle
    /\ call = CallNone
    /\ req = ReqIdle
    /\ members = {}
    /\ admins = NoAdmins

NextResolve ==
    \/ \E t \in SchoolIds : ListKnowledgeCollections(t)
    \/ \E t \in SchoolIds : ListDocuments(CollA, t, 1, 0)
    \/ \E t \in SchoolIds : GetCollectionDocumentCount(CollA, t)
    \/ \E t \in SchoolIds : DeleteCollection(CollA, t)
    \/ \E t \in SchoolIds : SearchStart("x", <<NameC>>, 1, t, "semantic")
    \/ SearchEmbed
    \/ SearchCollection
    \/ \E t \in SchoolIds :
          /\ ing[1].pc = "idle"
          /\ IngestStart(1, CollA, [fileName |-> "g", schoolId |-> t, uploadedAt |-> 0],
                         <<"x">>)
    \/ EnsureGetCollections(1)
    \/ EnsureCreateCollection(1)
    \/ EnsureCreatePayloadIndex(1)
    \/ IngestEmbed(1)
    \/ IngestUpsert(1)
    \/ \E t \in SchoolIds : DeleteStart(CollA, "f", t)
    \/ DeletePrimary
    \/ DeletePrimaryFail
    \/ ClientScroll
    \/ ClientDeleteBatch

SpecResolve == InitResolve /\ [][NextResolve]_vars

Unresolved(schoolId) == schoolId # NoSchool /\ getCluster(schoolId) = Unregistered

\* C9: an operation invoked for a school whose cluster has no registered client
\* ends in a failure thrown to the caller: searchKnowledge,
\* listKnowledgeCollections, listDocuments, getCollectionDocumentCount, ingest
\* and delete make no store request and return no value for it
C9_UnresolvedClusterSurfaces ==
    /\ (call.op # "none" /\ Unresolved(call.schoolId)) => call.outcome = "throw"
    /\ (srch.pc = "done" /\ Unresolved(srch.schoolId)) => srch.result = "throw"
    /\ (srch.pc # "idle" /\ Unresolved(srch.schoolId)) => srch.attempted = <<>>
    /\ \A p \in Procs :
          (ing[p].pc # "idle" /\ Unresolved(ing[p].metadata.schoolId))
          => (ing[p].pc = "done" /\ ing[p].result = "throw")
    /\ (del.pc # "idle" /\ Unresolved(del.schoolId))
       => (del.pc = "done" /\ del.result = "throw")

----------------------------------------------------------------------------
(* SpecEnsure: two ingest calls on one collection, each with its
   ensureCollection, in any interleaving, and a deleteCollection of it. *)

InitEnsure ==
    /\ cfg = SourceCfg
    /\ store \in {EmptyStore,
                  [EmptyStore EXCEPT ![DefaultCluster] =
                      (CollA :> ReadyCollection(0 :> StoredPoint("f", SchoolA)))]}
    /\ now = 0
    /\ del = DelIdle
    /\ ing = [p \in Procs |-> IngIdle]
    /\ srch = SrchIdle
    /\ call = CallNone
    /\ req = ReqIdle
    /\ members = {}
    /\ admins = NoAdmins

NextEnsure ==
    \/ \E p \in Procs, f \in Files, t \in {SchoolA, NoSchool}, n \in 0..MaxChunks :
          /\ ing[p].pc = "idle"
          /\ IngestStart(p, CollA, [fileName |-> f, schoolId |-> t, uploadedAt |-> 0],
                         [k \in 1..n |-> "x"])
    \/ \E p \in Procs : EnsureGetCollections(p)
    \/ \E p \in Procs : EnsureCreateCollection(p)
    \/ \E p \in Procs : EnsureCreatePayloadIndex(p)
    \/ \E p \in Procs : IngestEmbed(p)
    \/ \E p \in Procs : IngestUpsert(p)
    \/ Tick
    \/ DeleteCollection(CollA, SchoolA)

SpecEnsure == InitEnsure /\ [][NextEnsure]_vars

\* C10: an ingest call that starts after an ensureCollection of the same name and
\* cluster returned true (the collection not deleted since) issues no
\* createCollection and no createPayloadIndex request, and its ensureCollection
\* returns true at the existence test leaving the store as it was: vector
\* configuration, indexes and points
C10_EnsureIdempotent ==
    /\ [](\A p \in Procs : ing[p].after => (ing[p].created = 0 /\ ing[p].indexed = 0))
    /\ [][\A p \in Procs :
             (ing[p].after /\ ing[p].pc = "getCollections" /\ ing'[p].pc # "getCollections")
             => (store' = store /\ ing'[p].ensured)]_vars

\* the second call passed its ensureCollection after the first call's had created
\* the collection and its three indexes and the first call had stored a point
C10_Witness ==
    /\ ing[1].created = 1 /\ ing[1].indexed = 3 /\ ing[1].pc = "done"
    /\ ing[2].after /\ ing[2].ensured /\ ing[2].created = 0 /\ ing[2].indexed = 0
    /\ store[DefaultCluster][CollA].vectors = VectorParams
    /\ DOMAIN store[DefaultCluster][CollA].points # {}

----------------------------------------------------------------------------
(* SpecIndex: two ingest calls on a collection that does not exist yet, where a
   createPayloadIndex request may fail. *)

AllPayloadIndexes == {PayloadIndexes[k] : k \in 1..Len(PayloadIndexes)}

InitIndex ==
    /\ cfg = SourceCfg
    /\ store = EmptyStore
    /\ now = 0
    /\ del = DelIdle
    /\ ing = [p \in Procs |-> IngIdle]
    /\ srch = SrchIdle
    /\ call = CallNone
    /\ req = ReqIdle
    /\ members = {}
    /\ admins = NoAdmins

NextIndex ==
    \/ \E p \in Procs, n \in 0..1 :
          /\ ing[p].pc = "idle"
          /\ IngestStart(p, CollA, [fileName |-> "f", schoolId |-> SchoolA, uploadedAt |-> 0],
                         [k \in 1..n |-> "x"])
    \/ \E p \in Procs : EnsureGetCollections(p)
    \/ \E p \in Procs : EnsureCreateCollection(p)
    \/ \E p \in Procs : EnsureCreatePayloadIndex(p)
    \/ \E p \in Procs : EnsureCreatePayloadIndexFail(p)
    \/ \E p \in Procs : IngestEmbed(p)
    \/ \E p \in Procs : IngestUpsert(p)

SpecIndex == InitIndex /\ [][NextIndex]_vars

\* C11: whenever a call's ensureCollection has returned true, the collection
\* exists with 512-dimensional cosine vectors and the three payload indexes
C11_EnsuredHasIndexes ==
    \A p \in Procs :
        ing[p].ensured
        => LET cl == getCluster(ing[p].metadata.schoolId)
           IN  /\ Exists(cl, ing[p].collectionName)
               /\ store[cl][ing[p].collectionName].vectors = VectorParams
               /\ store[cl][ing[p].collectionName].indexes = AllPayloadIndexes

----------------------------------------------------------------------------
(* SpecConcurrent: two ingest calls on one collection that does not exist at
   first, in any interleaving of their steps and of the clock, with no request
   failing for a reason other than the store's state. *)

InitConcurrent ==
    /\ cfg = SourceCfg
    /\ store = EmptyStore
    /\ now = 0
    /\ del = DelIdle
    /\ ing = [p \in Procs |-> IngIdle]
    /\ srch = SrchIdle
    /\ call = CallNone
    /\ req = ReqIdle
    /\ members = {}
    /\ admins = NoAdmins

NextConcurrent ==
    \/ \E p \in Procs, f \in Files, n \in 1..MaxChunks :
          /\ ing[p].pc = "idle"
          /\ IngestStart(p, CollA, [fileName |-> f, schoolId |-> SchoolA, uploadedAt |-> 0],
                         [k \in 1..n |-> "x"])
    \/ \E p \in Procs : EnsureGetCollections(p)
    \/ \E p \in Procs : EnsureCreateCollection(p)
    \/ \E p \in Procs : EnsureCreatePayloadIndex(p)
    \/ \E p \in Procs : IngestEmbed(p)
    \/ \E p \in Procs : IngestUpsert(p)
    \/ Tick

SpecConcurrent == InitConcurrent /\ [][NextConcurrent]_vars

\* the chunks of a file that the collection holds
StoredChunks(cl, name, fileName) ==
    IF ~Exists(cl, name) THEN {}
    ELSE {id \in DOMAIN store[cl][name].points :
             store[cl][name].points[id].metadata.fileName = fileName}

\* the ids a call has given to its chunk records so far
AssignedIds(p) == {ing[p].sent[k].id : k \in 1..Len(ing[p].sent)} \cup DOMAIN ing[p].pending

\* C12: two ingest calls for different documents on a collection that did not
\* exist both return true, and the collection holds every chunk of both
C12_ConcurrentIngestsSucceed ==
    (/\ \A p \in Procs : ing[p].pc = "done"
     /\ ing[1].metadata.fileName # ing[2].metadata.fileName)
    => \A p \in Procs :
          /\ ing[p].result = "true"
          /\ Cardinality(StoredChunks(DefaultCluster, CollA, ing[p].metadata.fileName))
                = ing[p].totalChunks

\* C14: no two chunk records of different ingest calls get the same point id
C14_IdsUnique ==
    \A p, q \in Procs : p # q => AssignedIds(p) \cap AssignedIds(q) = {}

\* C15: after two successful ingest calls of the same n-chunk document, the
\* second started after the first returned, the collection holds 2n chunks of
\* that file name and every point the first call wrote is as it was written
C15_ReuploadDoubles ==
    \A p, q \in Procs :
        (/\ q \in ing[p].pred
         /\ ing[p].pc = "done" /\ ing[p].result = "true"
         /\ ing[p].metadata.fileName = ing[q].metadata.fileName
         /\ ing[p].chunks = ing[q].chunks)
        => /\ Cardinality(StoredChunks(DefaultCluster, CollA, ing[p].metadata.fileName))
                 = 2 * ing[p].totalChunks
           /\ \A k \in 1..Len(ing[q].sent) :
                 /\ ing[q].sent[k].id \in DOMAIN store[DefaultCluster][CollA].points
                 /\ store[DefaultCluster][CollA].points[ing[q].sent[k].id]
                       = ing[q].sent[k].payload

----------------------------------------------------------------------------
(* SpecIngest: one uploadDocumentToQdrantOptimized call with any chunk list and
   batch size, where an embedding or upsert request may fail. *)

InitIngest ==
    /\ cfg = SourceCfg
    /\ store \in {EmptyStore,
                  [EmptyStore EXCEPT ![DefaultCluster] = (CollA :> ReadyCollection(<<>>))]}
    /\ now = 0
    /\ del = DelIdle
    /\ ing = [p \in Procs |-> IngIdle]
    /\ srch = SrchIdle
    /\ call = CallNone
    /\ req = ReqIdle
    /\ members = {}
    /\ admins = NoAdmins

NextIngest ==
    \/ \E n \in 0..MaxDocChunks, batchSize \in 1..MaxBatchSize :
          \E chunks \in [1..n -> Texts] :
             /\ ing[1].pc = "idle"
             /\ IngestStartOptimized(1, CollA,
                    [fileName |-> "f", schoolId |-> SchoolA, uploadedAt |-> 0],
                    chunks, batchSize)
    \/ EnsureGetCollections(1)
    \/ EnsureCreateCollection(1)
    \/ EnsureCreatePayloadIndex(1)
    \/ IngestEmbed(1)
    \/ IngestEmbedFail(1)
    \/ IngestUpsert(1)
    \/ IngestUpsertFail(1)
    \/ Tick

SpecIngest == InitIngest /\ [][NextIngest]_vars

\* C13: the points a call has upserted are its chunks in order, the k-th with
\* chunkIndex k - 1, the call's fileName and totalChunks = n, under different
\* ids; a call that returned true has upserted all n
C13_DenseChunkIndex ==
    \A p \in Procs :
        /\ \A k \in 1..Len(ing[p].sent) :
              /\ ing[p].sent[k].payload.chunkIndex = k - 1
              /\ ing[p].sent[k].payload.text = ing[p].chunks[k]
              /\ ing[p].sent[k].payload.metadata.fileName = ing[p].metadata.fileName
              /\ ing[p].sent[k].payload.totalChunks = ing[p].totalChunks
              /\ \A j \in 1..(k - 1) : ing[p].sent[j].id < ing[p].sent[k].id
        /\ (ing[p].pc = "done" /\ ing[p].result = "true")
           => Len(ing[p].sent) = ing[p].totalChunks

\* a call returned true whose last batch is shorter than its batch size and
\* whose batches were built at different times
C13_Witness ==
    /\ ing[1].pc = "done" /\ ing[1].result = "true"
    /\ ing[1].batchSize > 1
    /\ ing[1].totalChunks > ing[1].batchSize
    /\ ing[1].totalChunks % ing[1].batchSize # 0
    /\ ing[1].sent[Len(ing[1].sent)].id > ing[1].totalChunks - 1

\* C16: a failed embedding or upsert request of a batch ends the call in failure;
\* the request is not issued again and no later batch is embedded or upserted;
\* progress is reported only for the batches upserted, whose points stay in the
\* store as written
C16_BatchFailureEndsCall ==
    \A p \in Procs :
        LET r == ing[p]
            done == Len(r.progress)
        IN  /\ done <= r.upserts /\ r.upserts <= r.embeds /\ r.embeds <= done + 1
            /\ r.embeds > done => r.pc \in {"upsert", "done"}
            /\ (r.pc = "done" /\ r.embeds > done) => r.result = "throw"
            /\ Len(r.sent) = r.processedChunks
            /\ Len(r.sent) = Min(done * r.batchSize, r.totalChunks)
            /\ \A k \in 1..Len(r.sent) :
                  /\ r.sent[k].id \in DOMAIN store[DefaultCluster][r.collectionName].points
                  /\ store[DefaultCluster][r.collectionName].points[r.sent[k].id]
                        = r.sent[k].payload

\* the second batch's upsert failed after the first batch was stored, with a
\* batch still to come
C16_Witness ==
    /\ ing[1].pc = "done" /\ ing[1].result = "throw"
    /\ Len(ing[1].progress) = 1 /\ ing[1].embeds = 2 /\ ing[1].upserts = 2
    /\ ing[1].batchStart + ing[1].batchSize < ing[1].totalChunks
    /\ DOMAIN store[DefaultCluster][CollA].points # {}

----------------------------------------------------------------------------
(* SpecProgress: one ingest call with the batch size of the code, for documents
   of every chunk count up to MaxProgressChunks, no request failing. *)

InitProgress ==
    /\ cfg = SourceCfg
    /\ store = [EmptyStore EXCEPT ![DefaultCluster] = (CollA :> ReadyCollection(<<>>))]
    /\ now = 0
    /\ del = DelIdle
    /\ ing = [p \in Procs |-> IngIdle]
    /\ srch = SrchIdle
    /\ call = CallNone
    /\ req = ReqIdle
    /\ members = {}
    /\ admins = NoAdmins

NextProgress ==
    \/ \E n \in 1..MaxProgressChunks :
          /\ ing[1].pc = "idle"
          /\ IngestStartOptimized(1, CollA,
                 [fileName |-> "f", schoolId |-> SchoolA, uploadedAt |-> 0],
                 [k \in 1..n |-> "x"], DefaultBatchSize)
    \/ EnsureGetCollections(1)
    \/ IngestEmbed(1)
    \/ IngestUpsert(1)

SpecProgress == InitProgress /\ [][NextProgress]_vars

\* C18: onProgress is called once per upserted batch, the k-th time with
\* round(100 * chunks persisted after k batches / n); the values never decrease
\* and 100 is reported for the last batch and for no batch before it
C18_ProgressReports ==
    \A p \in Procs :
        LET r == ing[p]
        IN  /\ Len(r.progress) = r.upserts
            /\ \A k \in 1..Len(r.progress) :
                  /\ r.progress[k] =
                        Percent(Min(k * r.batchSize, r.totalChunks), r.totalChunks)
                  /\ k > 1 => r.progress[k - 1] <= r.progress[k]
                  /\ r.progress[k] = 100 <=> k * r.batchSize >= r.totalChunks

----------------------------------------------------------------------------
(* SpecList: one listDocuments or getCollectionDocumentCount call on a collection
   of any content: chunks of two files and two schools, uploaded at two times,
   under ids from 0 to MaxId. *)

ListPoint(fileName, schoolId, uploadedAt) ==
    [text |-> "x",
     metadata |-> [fileName |-> fileName, schoolId |-> schoolId, uploadedAt |-> uploadedAt],
     chunkIndex |-> 0, totalChunks |-> 1]

ListContents ==
    UNION {[ids -> {ListPoint(f, t, u) : f \in Files, t \in SchoolIds, u \in 0..MaxTime}] :
              ids \in SUBSET (0..MaxId)}

InitList ==
    /\ cfg = SourceCfg
    /\ \E pts \in ListContents :
          store = [EmptyStore EXCEPT ![DefaultCluster] = (CollA :> ReadyCollection(pts))]
    /\ now = 0
    /\ del = DelIdle
    /\ ing = [p \in Procs |-> IngIdle]
    /\ srch = SrchIdle
    /\ call = CallNone
    /\ req = ReqIdle
    /\ members = {}
    /\ admins = NoAdmins

NextList ==
    \/ \E schoolId \in {SchoolA, NoSchool}, limit \in 1..MaxLimit, offset \in 0..1 :
          ListDocuments(CollA, schoolId, limit, offset)
    \/ \E schoolId \in {SchoolA, NoSchool} : GetCollectionDocumentCount(CollA, schoolId)

SpecList == InitList /\ [][NextList]_vars

\* the stored chunks that a call's optional school filter lets through
Matching(collectionName, schoolId) ==
    {id \in DOMAIN store[DefaultCluster][collectionName].points :
        schoolId = NoSchool
        \/ store[DefaultCluster][collectionName].points[id].metadata.schoolId = schoolId}

ChunksOf(collectionName, schoolId, fileName) ==
    {id \in Matching(collectionName, schoolId) :
        store[DefaultCluster][collectionName].points[id].metadata.fileName = fileName}

FileNames(collectionName, schoolId) ==
    {store[DefaultCluster][collectionName].points[id].metadata.fileName :
        id \in Matching(collectionName, schoolId)}

\* C19: listDocuments returns one entry per file name among the matching chunks
\* (as many as the limit allows), each with chunkCount the number of stored
\* matching chunks of that name, and totalDocuments the number of file names
C19_OneEntryPerFile ==
    call.op = "listDocuments"
    => LET c == call.args.collectionName
           t == call.schoolId
           documents == call.value.documents
       IN  /\ call.value.totalDocuments = Cardinality(FileNames(c, t))
           /\ Len(documents) = Min(call.args.limit, Cardinality(FileNames(c, t)))
           /\ \A k \in 1..Len(documents) :
                 /\ documents[k].fileName \in FileNames(c, t)
                 /\ documents[k].chunkCount
                       = Cardinality(ChunksOf(c, t, documents[k].fileName))
                 /\ \A j \in 1..(k - 1) : documents[j].fileName # documents[k].fileName

\* the grouped documents of all matching chunks, newest upload first
AllDocuments(collectionName, schoolId) ==
    LET ids == SortedIds(Matching(collectionName, schoolId))
    IN  SortByUploadedAt(GroupByFileName(
            [k \in 1..Len(ids) |->
                [id |-> ids[k],
                 payload |-> store[DefaultCluster][collectionName].points[ids[k]]]]))

\* C20: listDocuments(c, t, limit, offset) returns the entries offset ..
\* offset + limit - 1 of the grouped documents sorted by uploadedAt descending,
\* and nextOffset is set exactly when documents remain beyond the page
C20_PagesOverDocuments ==
    call.op = "listDocuments"
    => LET all == AllDocuments(call.args.collectionName, call.schoolId)
           last == Min(call.args.offset + call.args.limit, Len(all))
       IN  /\ call.value.documents = SubSeq(all, call.args.offset + 1, last)
           /\ (call.value.nextOffset # NullOffset)
                 <=> Len(all) > call.args.offset + call.args.limit

----------------------------------------------------------------------------
(* Collection names: QdrantClusterManager.getCollectionName and the display
   names of the knowledge-collections route *)

\* the characters of a cluster name
ClusterChars(cl) ==
    IF cl = "default" THEN <<"d", "e", "f", "a", "u", "l", "t">>
    ELSE IF cl = "enterprise" THEN <<"e", "n", "t", "e", "r", "p", "r", "i", "s", "e">>
    ELSE IF cl = "eu" THEN <<"e", "u">>
    ELSE <<>>

\* no clusterName argument
NoCluster == ""

\* getCollectionName: `${cluster}_${schoolId}_${collection}`
getCollectionName(schoolId, collection, clusterName) ==
    LET cluster == IF clusterName # NoCluster THEN clusterName
                   ELSE IF schoolId # NoSchool THEN getClusterForSchool(schoolId)
                   ELSE DefaultCluster
    IN  Underscore(ClusterChars(cluster), Underscore(schoolId, collection))

StartsWith(s, prefix) ==
    Len(s) >= Len(prefix) /\ SubSeq(s, 1, Len(prefix)) = prefix

\* the positions where pattern occurs in s
Occurrences(s, pattern) ==
    {k \in 1..(Len(s) - Len(pattern) + 1) : SubSeq(s, k, k + Len(pattern) - 1) = pattern}

\* s.replace(pattern, ''): the first occurrence of the string pattern is removed
RemoveFirst(s, pattern) ==
    IF Occurrences(s, pattern) = {} THEN s
    ELSE LET k == CHOOSE x \in Occurrences(s, pattern) :
                      \A y \in Occurrences(s, pattern) : x <= y
         IN  SubSeq(s, 1, k - 1) \o SubSeq(s, k + Len(pattern), Len(s))

\* collection.split('_'): parts[0] and parts.slice(1).join('_') of a string with
\* at least two parts
FirstPart(s) ==
    SubSeq(s, 1, (CHOOSE k \in 1..Len(s) : s[k] = "_" /\ \A j \in 1..(k - 1) : s[j] # "_") - 1)
RestParts(s) ==
    SubSeq(s, (CHOOSE k \in 1..Len(s) : s[k] = "_" /\ \A j \in 1..(k - 1) : s[j] # "_") + 1,
           Len(s))

AwsnaPrefix == Awsna \o <<"_">>

\* lines 34-60: the display name of one collection, as a list of one name, or the
\* empty list when the collection is not shown
CleanName(collection, schoolId, isAdmin) ==
    IF StartsWith(collection, AwsnaPrefix)
    THEN <<RemoveFirst(collection, AwsnaPrefix)>>
    ELSE IF schoolId # NoSchool /\ StartsWith(collection, schoolId \o <<"_">>)
    THEN <<RemoveFirst(collection, schoolId \o <<"_">>)>>
    ELSE IF isAdmin /\ Includes(collection, "_")
    THEN <<RestParts(collection) \o <<" ", "(">> \o FirstPart(collection) \o <<")">>>>
    ELSE <<>>

\* lines 63-66: a name is pushed unless it was added before
RECURSIVE AddedCollections(_, _, _)
AddedCollections(allCollections, schoolId, isAdmin) ==
    IF allCollections = <<>> THEN <<>>
    ELSE LET n == Len(allCollections)
             before == AddedCollections(SubSeq(allCollections, 1, n - 1), schoolId, isAdmin)
             clean == CleanName(allCollections[n], schoolId, isAdmin)
         IN  IF clean # <<>> /\ \A k \in 1..Len(before) : before[k] # clean[1]
             THEN before \o clean
             ELSE before

\* the order of characters under localeCompare
Collation ==
    <<" ", "_", "-", "(", ")", "a", "b", "c", "d", "e", "f", "g", "h", "i", "j", "k", "l",
      "m", "n", "o", "p", "q", "r", "s", "t", "u", "v", "w", "x", "y", "z">>
CharRank(ch) == CHOOSE k \in 1..Len(Collation) : Collation[k] = ch

\* a.localeCompare(b) < 0
RECURSIVE LocaleBefore(_, _)
LocaleBefore(a, b) ==
    IF b = <<>> THEN FALSE
    ELSE IF a = <<>> THEN TRUE
    ELSE IF Head(a) = Head(b) THEN LocaleBefore(Tail(a), Tail(b))
    ELSE CharRank(Head(a)) < CharRank(Head(b))

\* lines 70-76: names without '(' first, then by localeCompare
DisplayBefore(a, b) ==
    IF ~Includes(a, "(") /\ Includes(b, "(") THEN TRUE
    ELSE IF Includes(a, "(") /\ ~Includes(b, "(") THEN FALSE
    ELSE LocaleBefore(a, b)

RECURSIVE InsertByDisplay(_, _)
InsertByDisplay(sorted, x) ==
    IF sorted = <<>> THEN <<x>>
    ELSE IF DisplayBefore(x, Head(sorted)) THEN <<x>> \o sorted
    ELSE <<Head(sorted)>> \o InsertByDisplay(Tail(sorted), x)

RECURSIVE SortByDisplay(_)
SortByDisplay(names) ==
    IF names = <<>> THEN <<>>
    ELSE InsertByDisplay(SortByDisplay(SubSeq(names, 1, Len(names) - 1)), names[Len(names)])

filterCollectionsForSchool(allCollections, schoolId, isAdmin) ==
    SortByDisplay(AddedCollections(allCollections, schoolId, isAdmin))

\* the arguments of a naming call; built is the getCollectionName call whose
\* result was listed, when there was one
NameArgs(collection, clusterName, allCollections, isAdmin, built) ==
    [collection |-> collection, clusterName |-> clusterName,
     allCollections |-> allCollections, isAdmin |-> isAdmin, built |-> built]

\* a call of getCollectionName
GetCollectionName(schoolId, collection, clusterName) ==
    /\ call.op = "none" /\ srch.pc = "idle"
    /\ call' = [op |-> "getCollectionName",
                args |-> NameArgs(collection, clusterName, <<>>, FALSE, CallNone),
                schoolId |-> schoolId, client |-> Unregistered, outcome |-> "returned",
                value |-> getCollectionName(schoolId, collection, clusterName)]
    /\ UNCHANGED <<admins, members, cfg, store, now, del, ing, srch, req>>

\* the knowledge-collections route shows filterCollectionsForSchool of the
\* collection names
FilterCollectionsForSchool(allCollections, schoolId, isAdmin) ==
    /\ call.op \in {"none", "getCollectionName"} /\ srch.pc = "idle"
    /\ call' = [op |-> "filterCollectionsForSchool",
                args |-> NameArgs(<<>>, NoCluster, allCollections, isAdmin, call),
                schoolId |-> schoolId, client |-> Unregistered, outcome |-> "returned",
                value |-> filterCollectionsForSchool(allCollections, schoolId, isAdmin)]
    /\ UNCHANGED <<admins, members, cfg, store, now, del, ing, srch, req>>

\* the chat page sends the names it was shown, and the chat route hands them to
\* searchKnowledge with the school
SearchDisplayed ==
    /\ call.op = "filterCollectionsForSchool" /\ srch.pc = "idle"
    /\ srch' = SearchCall("x", call.value, 1, call.schoolId, "semantic")
    /\ UNCHANGED <<admins, members, cfg, store, now, del, ing, call, req>>

----------------------------------------------------------------------------
(* SpecNames: physical names are built, listed for display by the
   knowledge-collections route, and the displayed names are searched. *)

NameTenants == {SchoolA, <<"a", "_", "b">>, <<"a", " ", "b">>}
NameCollections == {<<"c">>, <<"c", "_", "d">>, <<"c", " ", "d">>}
Overrides == {NoCluster, "eu"}

\* '<c> (<s>)'
Qualified(c, s) == c \o <<" ", "(">> \o s \o <<")">>

\* the names the upload route gives the collections of the tenants
RouteNames == {Underscore(t, c) : t \in NameTenants, c \in NameCollections}

\* what a caller may put in the collections list of a search
SearchEntries == NameCollections \cup {Qualified(c, SchoolB) : c \in NameCollections}

NameCfgs == {SourceCfg, [mode |-> "MULTI_CLUSTER", mapping |-> EnterpriseMapping]}

InitNames ==
    /\ cfg \in NameCfgs
    /\ store = [EmptyStore EXCEPT ![DefaultCluster] =
                   (CollA :> ReadyCollection(0 :> StoredPoint("f", SchoolA)))]
    /\ now = 0
    /\ del = DelIdle
    /\ ing = [p \in Procs |-> IngIdle]
    /\ srch = SrchIdle
    /\ call = CallNone
    /\ req = ReqIdle
    /\ members = {}
    /\ admins = NoAdmins

NextNames ==
    \/ \E t \in NameTenants, c \in NameCollections, clusterName \in Overrides :
          GetCollectionName(t, c, clusterName)
    \/ \E isAdmin \in BOOLEAN :
          /\ call.op = "getCollectionName"
          /\ FilterCollectionsForSchool(<<call.value>>, call.schoolId, isAdmin)
    \/ \E name \in RouteNames, other \in RouteNames \cup {CollB},
          t \in NameTenants, isAdmin \in BOOLEAN :
          /\ call.op = "none"
          /\ FilterCollectionsForSchool(<<name, other>>, t, isAdmin)
    \/ SearchDisplayed
    \/ \E entry \in SearchEntries, t \in NameTenants :
          SearchStart("x", <<entry>>, 1, t, "semantic")
    \/ SearchEmbed
    \/ SearchCollection

SpecNames == InitNames /\ [][NextNames]_vars

\* C21: a physical name built by getCollectionName(t, c, override), listed by
\* filterCollectionsForSchool and decoded again by searchKnowledge gives the
\* pair back (the display name is c, or c qualified by t) and the search goes to
\* the original physical name
C21_NamesRoundTrip ==
    (srch.pc = "done" /\ call.op = "filterCollectionsForSchool"
        /\ call.args.built.op = "getCollectionName")
    => LET built == call.args.built
       IN  /\ call.value \in {<<built.args.collection>>,
                              <<Qualified(built.args.collection, built.schoolId)>>}
           /\ srch.attempted = <<built.value>>

\* C22: with a tenant t, an entry n that is a plain collection name is searched
\* in t_n and an entry '<c> (<s>)' is searched in s_c
C22_EntriesResolve ==
    srch.schoolId # NoSchool
    => \A k \in 1..Len(srch.attempted) :
          LET entry == srch.collectionNames[k]
          IN  IF MatchPositions(entry) # {}
              THEN LET q == Last(MatchPositions(entry))
                   IN  srch.attempted[k] = Underscore(SubSeq(entry, q + 1, Len(entry) - 1),
                                                      SubSeq(entry, 1, q - 2))
              ELSE srch.attempted[k] = Underscore(srch.schoolId, entry)

\* C23: getCollectionName(t, c) is t_c in single-endpoint mode and
\* cluster(t)_t_c in multi-endpoint mode, and it is the name the upload route
\* uses for (t, c)
C23_PhysicalName ==
    (call.op = "getCollectionName" /\ call.args.clusterName = NoCluster)
    => LET t == call.schoolId
           c == call.args.collection
       IN  /\ call.value = IF cfg.mode = "MULTI_CLUSTER"
                           THEN Underscore(ClusterChars(getClusterForSchool(t)),
                                           Underscore(t, c))
                           ELSE Underscore(t, c)
           /\ call.value = QdrantCollectionName(t, c)

----------------------------------------------------------------------------
(* splitTextIntoChunksOptimized: a text is a sequence of characters *)

Newline == "\n"

\* what \s matches and trim() removes
IsWhite(ch) == ch \in {Space, Newline}

\* [.!?]
IsStop(ch) == ch \in {".", "!", "?"}

RECURSIVE TrimStart(_)
TrimStart(s) ==
    IF s # <<>> /\ IsWhite(Head(s)) THEN TrimStart(Tail(s)) ELSE s

RECURSIVE TrimEnd(_)
TrimEnd(s) ==
    IF s # <<>> /\ IsWhite(s[Len(s)]) THEN TrimEnd(SubSeq(s, 1, Len(s) - 1)) ELSE s

Trim(s) == TrimEnd(TrimStart(s))

\* the ends j of a match of /\n\s*\n/ that starts at position i of s
ParagraphBreakEnds(s, i) ==
    {j \in (i + 1)..Len(s) :
        /\ s[i] = Newline /\ s[j] = Newline
        /\ \A k \in (i + 1)..(j - 1) : IsWhite(s[k])}

\* text.split(/\n\s*\n/): the leftmost match, as long as \s* can make it
RECURSIVE SplitParagraphs(_)
SplitParagraphs(s) ==
    LET starts == {i \in 1..Len(s) : ParagraphBreakEnds(s, i) # {}}
    IN  IF starts = {} THEN <<s>>
        ELSE LET i == CHOOSE x \in starts : \A y \in starts : x <= y
                 j == Last(ParagraphBreakEnds(s, i))
             IN  <<SubSeq(s, 1, i - 1)>> \o SplitParagraphs(SubSeq(s, j + 1, Len(s)))

\* paragraph.split(/[.!?]+/): the pieces between the runs of stops, the empty
\* piece before a leading run and after a trailing run included
RECURSIVE SplitSentences(_)
SplitSentences(s) ==
    LET stops == {i \in 1..Len(s) : IsStop(s[i])}
    IN  IF stops = {} THEN <<s>>
        ELSE LET i == CHOOSE x \in stops : \A y \in stops : x <= y
                 after == {j \in i..Len(s) : \A k \in i..j : IsStop(s[k])}
                 j == Last(after)
             IN  <<SubSeq(s, 1, i - 1)>> \o SplitSentences(SubSeq(s, j + 1, Len(s)))

\* .filter(sentence => sentence.trim().length > 0)
NonBlank(pieces) == SelectSeq(pieces, LAMBDA piece : Trim(piece) # <<>>)

RECURSIVE FlatMapSentences(_)
FlatMapSentences(paragraphs) ==
    IF paragraphs = <<>> THEN <<>>
    ELSE NonBlank(SplitSentences(Head(paragraphs))) \o FlatMapSentences(Tail(paragraphs))

\* lines 386-393
Segments(text, preserveParagraphs) ==
    IF preserveParagraphs THEN FlatMapSentences(SplitParagraphs(text))
    ELSE NonBlank(SplitSentences(text))

\* s.slice(-n): the last n characters; all of s when n is 0 or exceeds the length
SliceFromEnd(s, n) ==
    IF n = 0 \/ n >= Len(s) THEN s ELSE SubSeq(s, Len(s) - n + 1, Len(s))

\* s.lastIndexOf('. '), counted from 0; -1 when there is none
LastIndexOf(s, pattern) ==
    IF Occurrences(s, pattern) = {} THEN -1 ELSE Last(Occurrences(s, pattern)) - 1

StopSpace == <<".", Space>>

\* (currentChunk ? '. ' : '') + trimmedSegment appended to currentChunk
Joined(currentChunk, trimmedSegment) ==
    currentChunk \o (IF currentChunk # <<>> THEN StopSpace ELSE <<>>) \o trimmedSegment

\* lines 410-413: the overlap the next chunk starts with
OverlapStart(currentChunk, overlap) ==
    LET overlapText == SliceFromEnd(currentChunk, overlap)
        sentenceStart == LastIndexOf(overlapText, StopSpace)
    IN  IF sentenceStart > 0
        THEN SubSeq(overlapText, sentenceStart + 3, Len(overlapText))
        ELSE overlapText

\* the for loop of lines 397-418 over the segments left, from the chunks pushed
\* so far and currentChunk; then the final chunk of lines 421-423
RECURSIVE ChunkLoop(_, _, _, _, _, _)
ChunkLoop(segments, chunks, currentChunk, maxChunkSize, overlap, minChunkSize) ==
    IF segments = <<>>
    THEN IF currentChunk # <<>> /\ Len(currentChunk) >= minChunkSize
         THEN Append(chunks, currentChunk \o <<".">>)
         ELSE chunks
    ELSE LET trimmedSegment == Trim(Head(segments))
             potentialChunk == Joined(currentChunk, trimmedSegment)
         IN  IF Len(potentialChunk) <= maxChunkSize
             THEN ChunkLoop(Tail(segments), chunks, potentialChunk,
                            maxChunkSize, overlap, minChunkSize)
             ELSE IF currentChunk # <<>> /\ Len(currentChunk) >= minChunkSize
             THEN ChunkLoop(Tail(segments), Append(chunks, currentChunk \o <<".">>),
                            Joined(OverlapStart(currentChunk, overlap), trimmedSegment),
                            maxChunkSize, overlap, minChunkSize)
             ELSE ChunkLoop(Tail(segments), chunks, Joined(currentChunk, trimmedSegment),
                            maxChunkSize, overlap, minChunkSize)

splitTextIntoChunksOptimized(text, maxChunkSize, overlap, minChunkSize, preserveParagraphs) ==
    ChunkLoop(Segments(text, preserveParagraphs), <<>>, <<>>,
              maxChunkSize, overlap, minChunkSize)

----------------------------------------------------------------------------
(* SpecChunks: splitTextIntoChunksOptimized on every text of up to MaxTextLen
   characters under every option set within the bounds. *)

MaxTextLen == 5
MaxChunkSize == 3
MaxOverlap == 2
MaxMinChunkSize == 2

TextChars == {"a", ".", "!", Space, Newline}
ChunkTexts == UNION {[1..n -> TextChars] : n \in 0..MaxTextLen}

\* the arguments of a chunker call
ChunkArgs(text, maxChunkSize, overlap, minChunkSize, preserveParagraphs) ==
    [text |-> text, maxChunkSize |-> maxChunkSize, overlap |-> overlap,
     minChunkSize |-> minChunkSize, preserveParagraphs |-> preserveParagraphs]

\* the call is about to be made on its arguments
InitChunks ==
    /\ cfg = SourceCfg
    /\ store = EmptyStore
    /\ now = 0
    /\ del = DelIdle
    /\ ing = [p \in Procs |-> IngIdle]
    /\ srch = SrchIdle
    /\ \E text \in ChunkTexts, maxChunkSize \in 1..MaxChunkSize, overlap \in 0..MaxOverlap,
          minChunkSize \in 0..MaxMinChunkSize, preserveParagraphs \in BOOLEAN :
          call = [op |-> "pending",
                  args |-> ChunkArgs(text, maxChunkSize, overlap, minChunkSize,
                                     preserveParagraphs),
                  schoolId |-> NoSchool, client |-> Unregistered,
                  outcome |-> "none", value |-> <<>>]
    /\ req = ReqIdle
    /\ members = {}
    /\ admins = NoAdmins

\* the call returns its chunks
SplitTextIntoChunksOptimized ==
    /\ call.op = "pending"
    /\ call' = [call EXCEPT !.op = "splitTextIntoChunksOptimized",
                            !.outcome = "returned",
                            !.value = splitTextIntoChunksOptimized(
                                          call.args.text, call.args.maxChunkSize,
                                          call.args.overlap, call.args.minChunkSize,
                                          call.args.preserveParagraphs)]
    /\ UNCHANGED <<admins, members, cfg, store, now, del, ing, srch, req>>

NextChunks == SplitTextIntoChunksOptimized

SpecChunks == InitChunks /\ [][NextChunks]_vars

\* the trailing period, and the overlap text with its '. '
ChunkTolerance(overlap) == 1 + overlap + 2

\* C24: no chunk is longer than maxChunkSize plus the tolerance
C24_ChunksBounded ==
    call.op = "splitTextIntoChunksOptimized"
    => \A k \in 1..Len(call.value) :
          Len(call.value[k]) <= call.args.maxChunkSize + ChunkTolerance(call.args.overlap)

\* a chunk without the trailing period the chunker added
Unstopped(chunk) == SubSeq(chunk, 1, Len(chunk) - 1)

\* the length of the longest prefix of chunk that ends the previous chunk
SharedLen(previous, chunk) ==
    Last({n \in 0..Min(Len(previous), Len(chunk)) :
             SubSeq(chunk, 1, n) = SubSeq(previous, Len(previous) - n + 1, Len(previous))})

\* the chunks in order, each after the first without the prefix it shares with
\* the chunk before it
RECURSIVE Rebuilt(_)
Rebuilt(chunks) ==
    IF chunks = <<>> THEN <<>>
    ELSE IF Len(chunks) = 1 THEN chunks[1]
    ELSE LET n == Len(chunks)
             shared == SharedLen(Unstopped(chunks[n - 1]), chunks[n])
         IN  Rebuilt(SubSeq(chunks, 1, n - 1)) \o SubSeq(chunks[n], shared + 1, Len(chunks[n]))

\* C25: a text longer than minChunkSize is rebuilt from its chunks, and a text
\* shorter than minChunkSize gives no chunk
C25_ChunksRebuildText ==
    call.op = "splitTextIntoChunksOptimized"
    => /\ Len(call.args.text) > call.args.minChunkSize => Rebuilt(call.value) = call.args.text
       /\ Len(call.args.text) < call.args.minChunkSize => call.value = <<>>

----------------------------------------------------------------------------
(* The admin route: the admins collection, isUserAdmin and the POST actions
   initializeAdmin, grantAdmin, revokeAdmin and deleteCollection. *)

\* the e-mail addresses of the accounts and of the request bodies
SystemEmail == "s@x"
SystemEmailUpper == "S@x"
OtherEmail == "o@x"
Emails == {SystemEmail, SystemEmailUpper, OtherEmail}
SYSTEM_ADMINS == {SystemEmail}

\* String.prototype.toLowerCase on the addresses above
ToLowerCase(email) == IF email = SystemEmailUpper THEN SystemEmail ELSE email

isSystemAdmin(email) == ToLowerCase(email) \in SYSTEM_ADMINS

\* adminAuth.getUser(userId).email: the account's address in Firebase Auth
AccountEmail(userId) == IF userId = "u" THEN SystemEmail ELSE OtherEmail

AdminDoc(email) == [exists |-> TRUE, email |-> email, isAdmin |-> TRUE]

\* isUserAdmin: the admins document decides when there is one; otherwise the
\* account's address is looked up and a system admin gets a document made;
\* any failure of Firestore or of Firebase Auth answers false
isUserAdmin(userId, dbOk, authOk) ==
    IF ~dbOk THEN FALSE
    ELSE IF admins[userId].exists THEN admins[userId].isAdmin
    ELSE authOk /\ isSystemAdmin(AccountEmail(userId))

\* the admins collection after isUserAdmin(userId)
AutoCreated(userId, dbOk, authOk) ==
    IF dbOk /\ ~admins[userId].exists /\ authOk /\ isSystemAdmin(AccountEmail(userId))
    THEN [admins EXCEPT ![userId] = AdminDoc(AccountEmail(userId))]
    ELSE admins

AdminCheckEvent(userId, result) ==
    [kind |-> "access", name |-> "isUserAdmin", userId |-> userId,
     schoolId |-> NoSchool, result |-> result]

\* the action of the body and the user it targets
AdminRequestEvent(action, targetUserId) ==
    [kind |-> "request", name |-> action, userId |-> targetUserId,
     schoolId |-> NoSchool, result |-> TRUE]

\* adminDb.collection('admins').doc(targetUserId).delete(); result: whether
\* there was a document
AdminsDeleteEvent(targetUserId, existed) ==
    [kind |-> "op", name |-> "admins.delete", userId |-> targetUserId,
     schoolId |-> NoSchool, result |-> existed]

\* admin POST
AdminPost(tokenUid, action, targetUserId, targetEmail, collectionName, dbOk, authOk) ==
    /\ req.pc = "idle" /\ call.op = "none"
    /\ LET isAdmin == isUserAdmin(tokenUid, dbOk, authOk)
           checked == AutoCreated(tokenUid, dbOk, authOk)
           log     == <<AdminCheckEvent(tokenUid, isAdmin),
                        AdminRequestEvent(action, targetUserId)>>
           Answer(entries, status) ==
               req' = Respond("admin.POST", tokenUid, NoSchool, entries, status)
       IN  IF tokenUid = NoUser
           THEN /\ Answer(<<>>, 401)
                /\ UNCHANGED <<admins, call, store, ing>>
           ELSE IF ~isAdmin
           THEN /\ Answer(<<AdminCheckEvent(tokenUid, FALSE)>>, 403)
                /\ admins' = checked
                /\ UNCHANGED <<call, store, ing>>
           ELSE IF action = "initializeAdmin"
           THEN /\ Answer(log, 200)
                /\ admins' = checked
                /\ UNCHANGED <<call, store, ing>>
           ELSE IF action = "grantAdmin"
           THEN /\ admins' = [checked EXCEPT ![targetUserId] = AdminDoc(targetEmail)]
                /\ Answer(log, 200)
                /\ UNCHANGED <<call, store, ing>>
           ELSE IF action = "revokeAdmin"
           THEN LET targetDoc == checked[targetUserId]
                IN  IF targetDoc.exists /\ isSystemAdmin(targetDoc.email)
                    THEN /\ Answer(log, 403)
                         /\ admins' = checked
                         /\ UNCHANGED <<call, store, ing>>
                    ELSE /\ admins' = [checked EXCEPT ![targetUserId] = NoAdminDoc]
                         /\ Answer(Append(log, AdminsDeleteEvent(targetUserId,
                                                                 targetDoc.exists)),
                                   200)
                         /\ UNCHANGED <<call, store, ing>>
           ELSE IF action = "deleteCollection"
           THEN /\ call' = DeleteCollectionCall(collectionName, NoSchool)
                /\ store' = DeleteCollectionStore(collectionName, NoSchool)
                /\ ing' = NoteDeleteCollection(collectionName, NoSchool)
                /\ admins' = checked
                /\ Answer(Append(log, OpEvent("deleteCollection", tokenUid, NoSchool)),
                          IF getCluster(NoSchool) = Unregistered THEN 500 ELSE 200)
           ELSE /\ Answer(log, 400)
                /\ admins' = checked
                /\ UNCHANGED <<call, store, ing>>
    /\ UNCHANGED <<members, cfg, now, del, srch>>

\* the response has been sent and the server takes the next request
NextRequest ==
    /\ req.pc = "responded"
    /\ req' = ReqIdle
    /\ call' = CallNone
    /\ UNCHANGED <<admins, members, cfg, store, now, del, ing, srch>>

----------------------------------------------------------------------------
(* SpecAdmin: requests to the admin route and to the knowledge GET route, one
   after the other, by a system admin "u" and a user "v", over collections of
   both schools; "v" is at most a member of school b. *)

AdminActions == {"initializeAdmin", "grantAdmin", "revokeAdmin", "deleteCollection",
                 "other"}

InitAdmin ==
    /\ cfg \in ResolveCfgs
    /\ store = [EmptyStore EXCEPT ![DefaultCluster] =
                   (CollA :> ReadyCollection(0 :> StoredPoint("f", SchoolA)))
                   @@ (CollB :> ReadyCollection(0 :> StoredPoint("f", SchoolB)))]
    /\ now = 0
    /\ del = DelIdle
    /\ ing = [p \in Procs |-> IngIdle]
    /\ srch = SrchIdle
    /\ call = CallNone
    /\ req = ReqIdle
    /\ members \in SUBSET ({"v"} \X {SchoolB})
    /\ admins = NoAdmins

NextAdmin ==
    \/ \E tokenUid \in Users \cup {NoUser}, action \in AdminActions,
          targetUserId \in Users, targetEmail \in Emails,
          collectionName \in {CollA, CollB}, dbOk \in BOOLEAN, authOk \in BOOLEAN :
          AdminPost(tokenUid, action, targetUserId, targetEmail, collectionName,
                    dbOk, authOk)
    \/ \E tokenUid \in Users \cup {NoUser}, schoolId \in RouteSchools,
          action \in {"listCollections", "deleteCollection"},
          collection \in {<<>>, NameC, CollA, CollB}, dbOk \in BOOLEAN :
          KnowledgeGet(tokenUid, action, schoolId, collection, 1, 0, dbOk)
    \/ NextRequest

SpecAdmin == InitAdmin /\ [][NextAdmin]_vars

\* C26: a revokeAdmin request that targets a user whose account address is in
\* SYSTEM_ADMINS is answered 403 and the document of that user in the admins
\* collection is not deleted, whatever grantAdmin and revokeAdmin requests came
\* before.
C26_SystemAdminKept ==
    \A k \in 1..Len(req.log) :
        (/\ req.route = "admin.POST"
         /\ req.log[k] = AdminRequestEvent("revokeAdmin", req.log[k].userId)
         /\ isSystemAdmin(AccountEmail(req.log[k].userId)))
        => /\ req.status = 403
           /\ \A j \in 1..Len(req.log) : req.log[j].name # "admins.delete"

\* the requester of the finished request is an admin
RequesterIsAdmin ==
    \/ admins[req.userId].exists /\ admins[req.userId].isAdmin
    \/ isSystemAdmin(AccountEmail(req.userId))

\* the requester has passed the access check for the school, or would pass it
PassedAccessCheck(schoolId) ==
    \/ \E k \in 1..Len(req.log) : req.log[k] = AccessEvent(req.userId, schoolId, TRUE)
    \/ <<req.userId, schoolId>> \in members

\* C27: deleteCollection runs on the collection S_c of a school S only for a
\* requester who is an admin or who has passed the access check for S.
C27_DeleteCollectionGuarded ==
    \A schoolId \in SchoolIds :
        (/\ req.pc = "responded"
         /\ call.op = "deleteCollection"
         /\ call.args.collectionName = Underscore(schoolId, NameC))
        => RequesterIsAdmin \/ PassedAccessCheck(schoolId)

----------------------------------------------------------------------------
(* deleteDocumentByFileName: the outcomes of the filtered delete and of the
   client-side fallback, under SpecDelete *)

\* the points the fallback has read that match the call's file and school
DelMatching ==
    SelectSeq(del.allPoints,
              LAMBDA pt : ClientSideMatches(pt.payload, del.fileName, del.schoolId))

\* C28: deleteDocumentByFileName throws only after its filtered delete and its
\* fallback have both failed; a filtered delete that succeeds returns true and
\* no fallback runs; a filtered delete that fails runs the fallback once; a
\* fallback that finds no matching chunk returns true and has deleted nothing; a
\* fallback that throws after some id batches leaves the ids of the batches
\* it did not reach in the collection.
C28_DeleteOutcomes ==
    /\ del.fallbacks = (IF del.primary = "failed" THEN 1 ELSE 0)
    /\ del.result = "throw" => del.primary = "failed"
    /\ del.primary = "ok"
       => /\ del.pc = "done" /\ del.result = "true"
          /\ del.allPoints = <<>> /\ del.pointIds = <<>>
    /\ (del.pc = "done" /\ del.primary = "failed" /\ del.nextOffset = NullOffset
        /\ del.result = "true" /\ Len(DelMatching) = 0)
       => del.i = 0 /\ del.removed = {}
    /\ (del.pc = "done" /\ del.primary = "failed" /\ del.pointIds = <<>>
        /\ Len(DelMatching) = 0 /\ del.result = "throw")
       => del.removed = {}
    /\ (del.pc = "done" /\ del.result = "throw" /\ del.i > 0)
       => /\ del.i < Len(del.pointIds)
          /\ {r.id : r \in del.removed} = {del.pointIds[k] : k \in 1..del.i}
          /\ \A k \in (del.i + 1)..Len(del.pointIds) : del.pointIds[k] \in DOMAIN DelPoints

\* C28 witness: the filtered delete failed, the fallback ran once, deleted the
\* first id batch and threw on the second, whose chunk is still stored
C28_Witness ==
    /\ del.pc = "done" /\ del.result = "throw"
    /\ del.primary = "failed" /\ del.fallbacks = 1
    /\ del.i = DeleteBatchSize /\ Len(del.pointIds) > del.i
    /\ Cardinality(del.removed) = DeleteBatchSize
    /\ ClientSideMatches(DelPoints[del.pointIds[del.i + 1]], del.fileName, del.schoolId)

\* C28 witness: the fallback found no chunk of the file and returned true
C28_WitnessNoMatch ==
    /\ del.pc = "done" /\ del.result = "true" /\ del.primary = "failed"
    /\ Len(del.allPoints) > 0 /\ del.pointIds = <<>> /\ del.removed = {}

----------------------------------------------------------------------------
(* The client handles of the operations of one school, under SpecResolve *)

\* the school is the one of a call that has upserted
Upserted(p, schoolId) ==
    /\ schoolId # NoSchool
    /\ ing[p].metadata.schoolId = schoolId
    /\ ing[p].sent # <<>>

\* C29: the client handle on which an ingest call of a school has made sure of
\* the collection, the handle it has upserted to, and the handles of the
\* searchKnowledge, listDocuments, getCollectionDocumentCount and
\* deleteDocumentByFileName calls of the same school are one handle, in every
\* deployment.
C29_OneEndpoint ==
    \A p \in Procs, schoolId \in SchoolIds :
        Upserted(p, schoolId)
        => /\ ing[p].upsertClient = ing[p].ensureClient
           /\ (srch.embedded /\ srch.schoolId = schoolId)
              => srch.client = ing[p].upsertClient
           /\ (call.op \in {"listDocuments", "getCollectionDocumentCount"}
               /\ call.schoolId = schoolId)
              => call.client = ing[p].ensureClient
           /\ (del.pc # "idle" /\ del.schoolId = schoolId)
              => del.client = ing[p].ensureClient

----------------------------------------------------------------------------
(* SpecVisible: one uploadDocumentToQdrantOptimized call that splits its content
   itself, then listDocuments on the collection, with a delete of the file
   possibly in between. The chunk options of the call (2000, 200, 100) are
   scaled to the short contents of the model. *)

UploadMaxChunkSize == 4
UploadOverlap == 1
UploadMinChunkSize == 2

\* uploadDocumentToQdrantOptimized({content, metadata, collectionName, batchSize}):
\* the content is split with the call's chunkOptions; preserveParagraphs is
\* whether metadata.fileType names a pdf
UploadContent(p, collectionName, fileName, schoolId, content, isPdf) ==
    /\ ing[p].pc = "idle"
    /\ IngSet(p, IngestCallOptimized(collectionName,
                    [fileName |-> fileName, schoolId |-> schoolId, uploadedAt |-> now],
                    splitTextIntoChunksOptimized(content, UploadMaxChunkSize,
                                                 UploadOverlap, UploadMinChunkSize, isPdf),
                    UploadBatchSize))
    /\ UNCHANGED <<admins, members, srch, call, req, cfg, store, now, del>>

\* contents, as sequences of characters: "a", "aa", "a.b", "aa.bb", "aaa. bbb"
VisibleTexts ==
    {<<"a">>, <<"a", "a">>, <<"a", ".", "b">>, <<"a", "a", ".", "b", "b">>,
     <<"a", "a", "a", ".", Space, "b", "b", "b">>}

\* the collection is empty or holds one chunk of another file
VisibleContents ==
    {<<>>, (MaxTime + 4 :> [StoredPoint("g", SchoolA) EXCEPT !.text = <<"x">>])}

InitVisible ==
    /\ cfg = SourceCfg
    /\ \E pts \in VisibleContents :
          store = [EmptyStore EXCEPT ![DefaultCluster] = (CollA :> ReadyCollection(pts))]
    /\ now = 0
    /\ del = DelIdle
    /\ ing = [p \in Procs |-> IngIdle]
    /\ srch = SrchIdle
    /\ call = CallNone
    /\ req = ReqIdle
    /\ members = {}
    /\ admins = NoAdmins

NextVisible ==
    \/ \E content \in VisibleTexts, isPdf \in BOOLEAN :
          /\ ing[1].pc = "idle"
          /\ UploadContent(1, CollA, "f", SchoolA, content, isPdf)
    \/ EnsureGetCollections(1)
    \/ IngestEmbed(1)
    \/ IngestEmbedFail(1)
    \/ IngestUpsert(1)
    \/ IngestUpsertFail(1)
    \/ Tick
    \/ \E limit \in 1..MaxLimit :
          /\ ing[1].pc = "done"
          /\ ListDocuments(CollA, SchoolA, limit, 0)
    \/ /\ ing[1].pc = "done"
       /\ DeleteStart(CollA, "f", SchoolA)
    \/ DeletePrimary

SpecVisible == InitVisible /\ [][NextVisible]_vars

\* the entries of the listed page for a file name
EntriesOf(fileName) ==
    {k \in 1..Len(call.value.documents) : call.value.documents[k].fileName = fileName}

\* C30: after an ingest call of a file has returned true, with no delete of the
\* file since, listDocuments on its collection and school (all documents fitting
\* the page) lists the file once, with chunkCount equal to the totalChunks of its
\* chunks, however short the content was.
C30_IngestedIsListed ==
    (/\ ing[1].pc = "done" /\ ing[1].result = "true"
     /\ del.pc = "idle"
     /\ call.op = "listDocuments"
     /\ call.value.totalDocuments <= call.args.limit)
    => /\ Cardinality(EntriesOf(ing[1].metadata.fileName)) = 1
       /\ \A k \in EntriesOf(ing[1].metadata.fileName) :
             /\ call.value.documents[k].chunkCount = call.value.documents[k].totalChunks
             /\ call.value.documents[k].chunkCount = ing[1].totalChunks

====
